---------------------------- MODULE Spec2Model ----------------------------
(***************************************************************************)
(* A model of the scan-distortion pipeline of src/distort_scan.py:         *)
(*   - find_perspective_coeffs, the 8x8 Gaussian elimination, step by step *)
(*     (specification SpecSolve);                                          *)
(*   - main / distort_pdf / distort_page, the per-page stage pipeline, the *)
(*     process-wide random generator and the files the driver touches      *)
(*     (specification Spec).                                               *)
(*                                                                         *)
(* Numbers.  Python floats are modelled as exact rationals <<n, d>> in the *)
(* solver (inputs are small integers, so every intermediate value is       *)
(* representable) and as fixed-point integers (value * Scale) in the       *)
(* parameter sampler.                                                      *)
(***************************************************************************)
EXTENDS Integers, Sequences, FiniteSets, TLC

(***************************************************************************)
(* Bounds of the model.                                                    *)
(***************************************************************************)
\* Solver inputs: points range over the grid (0..MaxX) x (0..MaxY).
MaxX == 2
MaxY == 1
\* Documents have 0..MaxPages pages; a page is 1 x 1 or MaxW x MaxH pixels.
MaxPages == 2
MaxW == 8
MaxH == 5
\* --seed ranges over 0..MaxSeed (or is not given).
MaxSeed == 1

(***************************************************************************)
(* Exact rational arithmetic, standing for the float arithmetic of the     *)
(* solver.  A rational is <<n, d>> with d > 0 and gcd(|n|, d) = 1.          *)
(***************************************************************************)
Abs(x) == IF x < 0 THEN -x ELSE x

RECURSIVE GCD(_, _)
GCD(a, b) == IF b = 0 THEN a ELSE GCD(b, a % b)

RNorm(n, d) ==
    IF n = 0 THEN <<0, 1>>
    ELSE LET s == IF d < 0 THEN -1 ELSE 1
             g == GCD(Abs(n), Abs(d))
         IN  <<(s * n) \div g, (s * d) \div g>>

RInt(n) == <<n, 1>>
RAdd(a, b) == RNorm(a[1] * b[2] + b[1] * a[2], a[2] * b[2])
RSub(a, b) == RNorm(a[1] * b[2] - b[1] * a[2], a[2] * b[2])
RMul(a, b) == RNorm(a[1] * b[1], a[2] * b[2])
\* a / b for b # 0 (the callers raise ZeroDivisionError on b = 0 themselves).
RDiv(a, b) == RNorm(a[1] * b[2], a[2] * b[1])
RAbs(a) == <<Abs(a[1]), a[2]>>
RGt(a, b) == a[1] * b[2] > b[1] * a[2]
RIsZero(a) == a[1] = 0

\* 1e-10 = 1 / (EpsRoot * EpsRoot).
EpsRoot == 100000
\* abs(v) < 1e-10, i.e. |n| * 10^10 < d, computed without leaving the
\* machine integers: |n| <= ((d - 1) div 10^5) div 10^5.
BelowEps(v) == Abs(v[1]) <= ((v[2] - 1) \div EpsRoot) \div EpsRoot

(***************************************************************************)
(* find_perspective_coeffs (src/distort_scan.py:125-176).                  *)
(* Points are <<x, y>>; src and dst are 4-tuples of points.  Rows and      *)
(* columns are numbered 1..n here, 0..n-1 in the code.                     *)
(***************************************************************************)
n == 8

\* The two equations contributed by one correspondence (lines 135-137).
MatrixRows_Forward(d, s) ==
    LET x == s[1]
        y == s[2]
        X == d[1]
        Y == d[2]
    IN  << <<x, y, 1, 0, 0, 0, -X * x, -X * y, X>>,
           <<0, 0, 0, x, y, 1, -Y * x, -Y * y, Y>> >>
MatrixRows(d, s) ==
    LET x == d[1]
        y == d[2]
        X == s[1]
        Y == s[2]
    IN  << <<x, y, 1, 0, 0, 0, -X * x, -X * y, X>>,
           <<0, 0, 0, x, y, 1, -Y * x, -Y * y, Y>> >>

\* matrix: zip(dst, src), two rows per pair (lines 134-137).
BuildMatrix(s, d) ==
    [r \in 1..n |-> MatrixRows(d[(r + 1) \div 2], s[(r + 1) \div 2])[2 - (r % 2)]]

\* A = [row[:8] for row in matrix], B = [row[8] for row in matrix].
MatrixA(m) == [r \in 1..n |-> [j \in 1..n |-> RInt(m[r][j])]]
MatrixB(m) == [r \in 1..n |-> RInt(m[r][n + 1])]

\* Lines 146-151: the first row at or below col holding the largest
\* magnitude in column col (a later row replaces it only when strictly larger).
RECURSIVE PivotScan(_, _, _, _)
PivotScan(M, col, row, max_row) ==
    IF row > n THEN max_row
    ELSE IF RGt(RAbs(M[row][col]), RAbs(M[max_row][col]))
         THEN PivotScan(M, col, row + 1, row)
         ELSE PivotScan(M, col, row + 1, max_row)

FindPivotRow(M, col) == PivotScan(M, col, col + 1, col)

\* Lines 152-153: A[col], A[max_row] = A[max_row], A[col] (same for B).
SwapRows(M, i, j) == [M EXCEPT ![i] = M[j], ![j] = M[i]]

\* Line 156: if abs(pivot) < 1e-10: continue
PivotNeverSmall(pivot) == FALSE
PivotTooSmall(pivot) == BelowEps(pivot)

\* Lines 159-163: rows below col have factor * row col subtracted, in the
\* columns col..n-1 and in B.
EliminateA(M, col) ==
    [row \in 1..n |->
        IF row <= col THEN M[row]
        ELSE LET factor == RDiv(M[row][col], M[col][col])
             IN  [j \in 1..n |->
                    IF j < col THEN M[row][j]
                    ELSE RSub(M[row][j], RMul(factor, M[col][j]))]]

EliminateB_NotUpdated(M, V, col) == V
EliminateB(M, V, col) ==
    [row \in 1..n |->
        IF row <= col THEN V[row]
        ELSE LET factor == RDiv(M[row][col], M[col][col])
             IN  RSub(V[row], RMul(factor, V[col]))]

\* Line 168-170: s = B[i] - sum over j > i of A[i][j] * coeffs[j].
RECURSIVE RowSum(_, _, _, _)
RowSum(M, c, i, j) ==
    IF j > n THEN RInt(0)
    ELSE RAdd(RMul(M[i][j], c[j]), RowSum(M, c, i, j + 1))

\* Line 171: if abs(A[i][i]) < 1e-10: coeffs[i] = 0.0
DiagTooSmall(v) == BelowEps(v)

\* Lines 166-174: back substitution from the last row upward.
RECURSIVE BackSubstitute(_, _, _, _)
BackSubstitute(M, V, i, c) ==
    IF i < 1 THEN c
    ELSE LET s == RSub(V[i], RowSum(M, c, i, i + 1))
             ci == IF DiagTooSmall(M[i][i]) THEN RInt(0) ELSE RDiv(s, M[i][i])
         IN  BackSubstitute(M, V, i - 1, [c EXCEPT ![i] = ci])

\* The values back substitution divides by.
BackDivisors(M) == {M[i][i] : i \in {k \in 1..n : ~DiagTooSmall(M[k][k])}}

\* The rectangle corners of apply_perspective_warp (line 184):
\* top-left, top-right, bottom-right, bottom-left.
Corners(w, h) == << <<0, 0>>, <<w, 0>>, <<w, h>>, <<0, h>> >>

(***************************************************************************)
(* The process-wide generator of the random module.  Its state is a number *)
(* in 0..RngMod-1; every call of random.random / uniform / randint /       *)
(* choice reads one output (a level k in 0..RngLevels-1, standing for the  *)
(* fraction k / RngLevels in [0, 1)) and steps the state.                  *)
(***************************************************************************)
RngMod == 64
RngMul == 37
RngInc == 11
RngLevels == 8

RngNext(g) == (RngMul * g + RngInc) % RngMod
RngOut(g) == (g * RngLevels) \div RngMod

RECURSIVE RngAdvance(_, _)
RngAdvance(g, k) == IF k = 0 THEN g ELSE RngAdvance(RngNext(g), k - 1)

\* The next k outputs of the generator in state g.
Outs(g, k) == [i \in 1..k |-> RngOut(RngAdvance(g, i - 1))]

\* The state random.seed(seed) leaves the generator in.
RandomSeed(s) == (29 * s + 17) % RngMod

\* Fixed point: a float v is held as the integer v * Scale.
Scale == 10000

\* random.random() as a fixed-point value.
Unit(k) == (k * Scale) \div RngLevels
\* random.uniform(a, b) = a + (b - a) * random()
Uniform_Unshifted(a, b, k) == ((b - a) * k) \div RngLevels
Uniform(a, b, k) == a + ((b - a) * k) \div RngLevels
\* random.randint(a, b), a <= b
RandInt(a, b, k) == a + (k * (b - a + 1)) \div RngLevels
\* random.choice(seq)
Choice(seq, k) == seq[1 + (k * Len(seq)) \div RngLevels]

Max(a, b) == IF a > b THEN a ELSE b
Min(a, b) == IF a < b THEN a ELSE b

(***************************************************************************)
(* INTENSITY_PRESETS (lines 25-62), in fixed point; wrinkle_count in units.*)
(***************************************************************************)
INTENSITY_PRESETS ==
    [low |->
        [rotation |-> <<2000, 7000>>,
         noise_opacity |-> <<200, 500>>,
         brightness |-> <<9700, 10300>>,
         contrast |-> <<9700, 10300>>,
         perspective |-> <<10, 30>>,
         vignette_strength |-> <<500, 1200>>,
         regional_blur_prob |-> 1500,
         wrinkle_prob |-> 1000,
         wrinkle_count |-> <<1, 2>>,
         wrinkle_amplitude |-> <<10000, 30000>>],
     medium |->
        [rotation |-> <<5000, 15000>>,
         noise_opacity |-> <<400, 1000>>,
         brightness |-> <<9300, 10700>>,
         contrast |-> <<9300, 10700>>,
         perspective |-> <<30, 80>>,
         vignette_strength |-> <<1000, 2500>>,
         regional_blur_prob |-> 3000,
         wrinkle_prob |-> 2500,
         wrinkle_count |-> <<1, 3>>,
         wrinkle_amplitude |-> <<20000, 50000>>],
     high |->
        [rotation |-> <<10000, 25000>>,
         noise_opacity |-> <<800, 1800>>,
         brightness |-> <<8800, 11200>>,
         contrast |-> <<8800, 11200>>,
         perspective |-> <<80, 150>>,
         vignette_strength |-> <<2000, 4000>>,
         regional_blur_prob |-> 5000,
         wrinkle_prob |-> 4500,
         wrinkle_count |-> <<2, 4>>,
         wrinkle_amplitude |-> <<40000, 80000>>]]

\* Line 67: p = INTENSITY_PRESETS[preset] raises KeyError on any other name.
KnownPreset(preset) == preset \in DOMAIN INTENSITY_PRESETS

\* The generator state a KeyError of line 67 leaves behind: the lookup comes
\* before the first draw of line 69.
StateAtKeyError_AfterFirstDraw(g) == RngNext(g)
StateAtKeyError(g) == g

\* The table after a call of randomize_params: line 67 binds p to the
\* preset's dict and lines 69-81 only read it (the tuples are unpacked into
\* the arguments of random.uniform / randint).
TableAfterSampling_Normalised(table, preset) ==
    IF preset \in DOMAIN table
    THEN [table EXCEPT ![preset].wrinkle_count = <<@[2], @[1]>>]
    ELSE table
TableAfterSampling(table, preset) == table

\* Number of draws of randomize_params (lines 69-81).
ParamDraws == 12

\* randomize_params (lines 65-82), for a known preset, from generator state g.
randomize_params(preset, g) ==
    LET p == INTENSITY_PRESETS[preset]
        u == Outs(g, ParamDraws)
    IN  [rotation_angle |->
             Uniform(p.rotation[1], p.rotation[2], u[1]) * Choice(<<-1, 1>>, u[2]),
         noise_opacity |-> Uniform(p.noise_opacity[1], p.noise_opacity[2], u[3]),
         brightness |-> Uniform(p.brightness[1], p.brightness[2], u[4]),
         contrast |-> Uniform(p.contrast[1], p.contrast[2], u[5]),
         perspective_magnitude |-> Uniform(p.perspective[1], p.perspective[2], u[6]),
         vignette_strength |->
             Uniform(p.vignette_strength[1], p.vignette_strength[2], u[7]),
         vignette_radius |-> Uniform(7000, 9000, u[8]),
         regional_blur_prob |-> p.regional_blur_prob,
         regional_blur_radius |-> Uniform(15000, 30000, u[9]),
         regional_blur_fraction |-> Uniform(500, 1500, u[10]),
         wrinkle_prob |-> p.wrinkle_prob,
         wrinkle_count |-> RandInt(p.wrinkle_count[1], p.wrinkle_count[2], u[11]),
         wrinkle_amplitude |->
             Uniform(p.wrinkle_amplitude[1], p.wrinkle_amplitude[2], u[12])]

\* Line 350: params = randomize_params(intensity), a local of the call.
\* kept is whatever an earlier call left behind: the code keeps nothing, and
\* samples anew in every call.
ParamsOfCall_Cached(preset, g, kept) ==
    IF kept # <<>> THEN kept ELSE randomize_params(preset, g)
ParamsOfCall(preset, g, kept) == randomize_params(preset, g)

(***************************************************************************)
(* Images.  An image is [w, h, mode, px]: its size, its mode and, for its  *)
(* pixels, the sequence of operations that produced them from a rendered   *)
(* page (two images with the same px hold the same pixels).                *)
(***************************************************************************)
Op(image, op) == [image EXCEPT !.px = Append(@, op)]

\* image.convert('RGB') (line 354)
Convert(image, mode) == [Op(image, <<"convert", mode>>) EXCEPT !.mode = mode]

\* floor and ceiling of p / q, q > 0
Floor(p, q) == p \div q
Ceil(p, q) == -((-p) \div q)

\* sin and cos of a rotation angle (fixed-point degrees, at most a few
\* degrees), in millionths: x - x^3/6 and 1 - x^2/2 with x in microradians.
Micro == 1000000
MicroRadians(angle) == (angle * 17453) \div Scale
SinMicro(angle) ==
    LET x == MicroRadians(Abs(angle))
        v == x - (((x * x) \div Micro) * x) \div (6 * Micro)
    IN  IF angle < 0 THEN -v ELSE v
CosMicro(angle) ==
    LET x == MicroRadians(Abs(angle))
    IN  Micro - ((x * x) \div Micro) \div 2

\* The canvas size of image.rotate(angle, expand=True) (lines 88-89): the
\* bounding box of the four corners rotated about the centre, rounded
\* outward.  In units of 1 / (2 * Micro) pixel the corners lie at
\* w * Micro +- (w * cos +- h * |sin|), so the least coordinate is
\* w * (Micro - cos) - h * |sin| and the greatest is 2 * w * Micro minus it.
RotatedSize(w, h, angle) ==
    LET v == Micro - CosMicro(angle)
        s == Abs(SinMicro(angle))
        lox == w * v - h * s
        loy == h * v - w * s
    IN  <<w - 2 * Floor(lox, 2 * Micro), h - 2 * Floor(loy, 2 * Micro)>>

Rotate(image, angle) ==
    LET size == RotatedSize(image.w, image.h, angle)
    IN  [Op(image, <<"rotate", angle>>) EXCEPT !.w = size[1], !.h = size[2]]

\* image.crop((left, top, right, bottom)): the result is right - left wide
\* and bottom - top high.
Crop_Inclusive(image, left, top, right, bottom) ==
    [Op(image, <<"crop", left, top, right, bottom>>)
        EXCEPT !.w = right - left + 1, !.h = bottom - top + 1]
Crop(image, left, top, right, bottom) ==
    [Op(image, <<"crop", left, top, right, bottom>>)
        EXCEPT !.w = right - left, !.h = bottom - top]

\* apply_rotation (lines 85-94).
apply_rotation_uncropped(image, angle) == Rotate(image, angle)
apply_rotation(image, angle) ==
    LET w == image.w
        h == image.h
        rotated == Rotate(image, angle)
        rw == rotated.w
        rh == rotated.h
        left == (rw - w) \div 2
        top == (rh - h) \div 2
    IN  Crop(rotated, left, top, left + w, top + h)

\* The locals of apply_rotation at its return statement (lines 87-93).
RotationLocals(image, angle) ==
    LET rotated == Rotate(image, angle)
    IN  [w |-> image.w, h |-> image.h, rw |-> rotated.w, rh |-> rotated.h,
         left |-> (rotated.w - image.w) \div 2,
         top |-> (rotated.h - image.h) \div 2]

\* Number of draws of apply_perspective_warp (lines 190-193).
WarpDraws == 8

\* dst of lines 186-194 for a w x h image, from the eight draws u.
WarpDst_BottomSwapped(w, h, magnitude, u) ==
    LET max_dx == w * magnitude
        max_dy == h * magnitude
    IN  << <<Uniform(0, max_dx, u[1]), Uniform(0, max_dy, u[2])>>,
           <<w * Scale - Uniform(0, max_dx, u[3]), Uniform(0, max_dy, u[4])>>,
           <<Uniform(0, max_dx, u[7]), h * Scale - Uniform(0, max_dy, u[8])>>,
           <<w * Scale - Uniform(0, max_dx, u[5]),
             h * Scale - Uniform(0, max_dy, u[6])>> >>
WarpDst(w, h, magnitude, u) ==
    LET max_dx == w * magnitude
        max_dy == h * magnitude
    IN  << <<Uniform(0, max_dx, u[1]), Uniform(0, max_dy, u[2])>>,
           <<w * Scale - Uniform(0, max_dx, u[3]), Uniform(0, max_dy, u[4])>>,
           <<w * Scale - Uniform(0, max_dx, u[5]),
             h * Scale - Uniform(0, max_dy, u[6])>>,
           <<Uniform(0, max_dx, u[7]), h * Scale - Uniform(0, max_dy, u[8])>> >>

\* apply_perspective_warp (lines 179-198), from generator state g.  Corner
\* coordinates are fixed-point pixels.  The coefficients are those of
\* find_perspective_coeffs(src, dst), modelled on its own above; the image
\* records the correspondence they are computed from.
apply_perspective_warp(image, magnitude, g) ==
    LET w == image.w
        h == image.h
        src_c == Corners(w * Scale, h * Scale)
        dst_c == WarpDst(w, h, magnitude, Outs(g, WarpDraws))
    IN  [Op(image, <<"perspective", src_c, dst_c>>) EXCEPT !.w = w, !.h = h]

\* Line 250: if num_wrinkles <= 0 or amplitude < 0.5: return image
WrinkleNoOp_CountOnly(num_wrinkles, amplitude) == num_wrinkles <= 0
WrinkleNoOp(num_wrinkles, amplitude) ==
    num_wrinkles <= 0 \/ amplitude < Scale \div 2

\* Number of draws of one wrinkle pass (lines 260-276).
PassDraws == 5

\* The crease one pass of apply_wrinkle draws (lines 260-276) for a w x h
\* image, from generator state g.
CreaseOf(w, h, g) ==
    LET u == Outs(g, PassDraws)
        horizontal == Unit(u[1]) < Scale \div 2
        dim == IF horizontal THEN h ELSE w
    IN  [horizontal |-> horizontal,
         angle |-> Uniform(-800, 800, u[2]),
         center |-> RandInt((dim * 15) \div 100, (dim * 85) \div 100, u[3]),
         falloff |-> Max(RandInt((dim * 3) \div 100, (dim * 8) \div 100, u[4]), 4),
         wavelength |-> Uniform(80 * Scale, 200 * Scale, u[5])]

\* One pass of the loop of apply_wrinkle (lines 258-343) over an image, from
\* generator state g: the crease it draws, applied to every pixel.
WrinklePassOf(image, amplitude, g) ==
    LET c == CreaseOf(image.w, image.h, g)
    IN  Op(image, <<"wrinkle", c.horizontal, c.angle, c.center, c.falloff,
                    c.wavelength, amplitude>>)

\* apply_brightness_contrast (lines 118-122): brightness, then contrast.
apply_brightness_contrast(image, brightness, contrast) ==
    Op(Op(image, <<"brightness", brightness>>), <<"contrast", contrast>>)

\* Number of draws of apply_noise (lines 100-104): small_w * small_h.
NoiseDraws(image) == Max(1, image.w \div 4) * Max(1, image.h \div 4)

\* apply_noise (lines 97-115), from generator state g.
apply_noise(image, opacity, g) ==
    LET u == Outs(g, NoiseDraws(image))
        noise_pixels == [i \in 1..NoiseDraws(image) |-> RandInt(0, 255, u[i])]
    IN  Op(image, <<"noise", noise_pixels, opacity>>)

\* apply_vignette_fast (lines 201-228).
apply_vignette_fast(image, strength, radius_factor) ==
    Op(image, <<"vignette", strength, radius_factor>>)

\* Line 359: if random.random() < params['wrinkle_prob']
WrinkleFires_OrEqual(k, wrinkle_prob) == Unit(k) <= wrinkle_prob
WrinkleFires(k, wrinkle_prob) == Unit(k) < wrinkle_prob

\* Line 233: if random.random() > probability: return image
BlurSkipped(k, probability) == Unit(k) > probability

\* Number of draws of apply_regional_blur (lines 233, 238).
BlurDraws(k, probability) == IF BlurSkipped(k, probability) THEN 1 ELSE 2

\* apply_regional_blur (lines 231-245), from generator state g.
apply_regional_blur(image, probability, radius, region_fraction, g) ==
    LET u == Outs(g, 2)
        h == image.h
        band_height == Max(1, (h * region_fraction) \div Scale)
        top == RandInt(0, Max(0, h - band_height), u[2])
        bottom == Min(h, top + band_height)
    IN  IF BlurSkipped(u[1], probability) THEN image
        ELSE Op(image, <<"blur", top, bottom, radius>>)

\* The order of the stages of distort_page (lines 350-370): the stage that
\* follows each one.
StageAfter_NoiseFirst(stage) ==
    CASE stage = "params" -> "ensure_rgb"
      [] stage = "ensure_rgb" -> "rotation"
      [] stage = "rotation" -> "perspective"
      [] stage = "perspective" -> "wrinkle"
      [] stage = "wrinkle" -> "noise"
      [] stage = "noise" -> "brightness_contrast"
      [] stage = "brightness_contrast" -> "vignette"
      [] stage = "vignette" -> "regional_blur"
      [] stage = "regional_blur" -> "return"
StageAfter(stage) ==
    CASE stage = "params" -> "ensure_rgb"
      [] stage = "ensure_rgb" -> "rotation"
      [] stage = "rotation" -> "perspective"
      [] stage = "perspective" -> "wrinkle"
      [] stage = "wrinkle" -> "brightness_contrast"
      [] stage = "brightness_contrast" -> "noise"
      [] stage = "noise" -> "vignette"
      [] stage = "vignette" -> "regional_blur"
      [] stage = "regional_blur" -> "return"

(***************************************************************************)
(* Pixels.  Where a claim is about pixel values an image also carries      *)
(* data, a function from <<x, y>> (0 <= x < w, 0 <= y < h) to the pixel    *)
(* <<r, g, b>>, each channel in 0..255.  Fractions are fixed point.        *)
(***************************************************************************)
Coords(w, h) == (0..(w - 1)) \X (0..(h - 1))

Clamp(v, lo, hi) == Max(lo, Min(hi, v))

\* Image.new(mode, (w, h), color)
ImageNew(w, h, color) == [xy \in Coords(w, h) |-> color]

\* Image.blend(im1, im2, alpha), one channel: im1 + alpha * (im2 - im1),
\* clipped to 0..255 and truncated to an integer.
BlendValue_Swapped(a, b, alpha) ==
    Clamp((b * Scale + alpha * (a - b)) \div Scale, 0, 255)
BlendValue(a, b, alpha) ==
    Clamp((a * Scale + alpha * (b - a)) \div Scale, 0, 255)

BlendPixel(p, q, alpha) == [c \in 1..3 |-> BlendValue(p[c], q[c], alpha)]

Blend(data1, data2, alpha) ==
    [xy \in DOMAIN data1 |-> BlendPixel(data1[xy], data2[xy], alpha)]

\* convert('L') of one pixel (ITU-R 601-2 luma).
Luma(p) == (299 * p[1] + 587 * p[2] + 114 * p[3]) \div 1000

\* The sum of the luma of pixels number lo..hi-1 (row by row), by halves.
RECURSIVE SumLuma(_, _, _, _)
SumLuma(data, w, lo, hi) ==
    IF lo >= hi THEN 0
    ELSE IF hi = lo + 1 THEN Luma(data[<<lo % w, lo \div w>>])
    ELSE SumLuma(data, w, lo, (lo + hi) \div 2)
             + SumLuma(data, w, (lo + hi) \div 2, hi)

\* ImageEnhance.Brightness(image).enhance(factor): blend of a black image
\* and the image.
EnhanceBrightness(data, w, h, factor) ==
    Blend(ImageNew(w, h, <<0, 0, 0>>), data, factor)

\* ImageEnhance.Contrast(image).enhance(factor): blend of a grey image at
\* the rounded mean luma and the image.
EnhanceContrast(data, w, h, factor) ==
    LET mean == (2 * SumLuma(data, w, 0, w * h) + w * h) \div (2 * w * h)
    IN  Blend(ImageNew(w, h, <<mean, mean, mean>>), data, factor)

\* The pixels of apply_brightness_contrast (lines 120-121).
BrightnessContrastData(image, brightness, contrast) ==
    EnhanceContrast(EnhanceBrightness(image.data, image.w, image.h, brightness),
                    image.w, image.h, contrast)

\* resize((w, h), Image.BILINEAR) of a one-channel sw x sh grid: each target
\* pixel centre is mapped into the grid and the four nearest cells are
\* interpolated, cells beyond the edge repeating the edge.
ResizeBilinear(grid, sw, sh, w, h) ==
    [xy \in Coords(w, h) |->
        LET ux == Clamp((2 * xy[1] + 1) * sw - w, 0, (sw - 1) * 2 * w)
            uy == Clamp((2 * xy[2] + 1) * sh - h, 0, (sh - 1) * 2 * h)
            x0 == ux \div (2 * w)
            y0 == uy \div (2 * h)
            x1 == Min(x0 + 1, sw - 1)
            y1 == Min(y0 + 1, sh - 1)
            fx == ux % (2 * w)
            fy == uy % (2 * h)
            den == 4 * w * h
            num == grid[<<x0, y0>>] * (2 * w - fx) * (2 * h - fy)
                     + grid[<<x1, y0>>] * fx * (2 * h - fy)
                     + grid[<<x0, y1>>] * (2 * w - fx) * fy
                     + grid[<<x1, y1>>] * fx * fy
        IN  (2 * num + den) \div (2 * den)]

\* The pixels of apply_noise (lines 99-115), from generator state g.
NoiseData(image, opacity, g) ==
    LET w == image.w
        h == image.h
        small_w == Max(1, w \div 4)
        small_h == Max(1, h \div 4)
        u == Outs(g, small_w * small_h)
        noise_small ==
            [xy \in Coords(small_w, small_h) |->
                RandInt(0, 255, u[1 + xy[2] * small_w + xy[1]])]
        noise_full == ResizeBilinear(noise_small, small_w, small_h, w, h)
        noise_rgb == [xy \in Coords(w, h) |->
                         <<noise_full[xy], noise_full[xy], noise_full[xy]>>]
    IN  Blend(image.data, noise_rgb, opacity)

\* The greatest r with r * r <= v.
RECURSIVE ISqrtIn(_, _, _)
ISqrtIn(v, lo, hi) ==
    IF lo = hi THEN lo
    ELSE LET mid == (lo + hi + 1) \div 2
         IN  IF mid * mid <= v THEN ISqrtIn(v, mid, hi)
             ELSE ISqrtIn(v, lo, mid - 1)

ISqrt(v) == ISqrtIn(v, 0, 2 * Scale)

\* The corner distance the vignette divides by: 1.4142 (line 219).
CornerDistance == 14142

\* ceil(255 * r / d) for 0 <= r <= d, without a product above 2^31.
CeilOf255Times(r, d) ==
    LET q1 == (15 * r) \div d
        r1 == (15 * r) % d
        q2 == (17 * r1) \div d
        r2 == (17 * r1) % d
    IN  17 * q1 + q2 + (IF r2 = 0 THEN 0 ELSE 1)

\* dist of lines 216-218 for cell (x, y) of an sw x sh mask: cx = sw / 2 and
\* cy = sh / 2 are never 0.
MaskDistance(sw, sh, x, y) ==
    LET dx == ((2 * x - sw) * Scale) \div sw
        dy == ((2 * y - sh) * Scale) \div sh
    IN  ISqrt(dx * dx + dy * dy)

\* One value of the low-resolution mask (lines 219-221).
MaskValue_Unclamped(dist, strength, radius_factor) ==
    255 - (strength * (dist - radius_factor))
              \div ((Scale * (CornerDistance - radius_factor)) \div 255)
MaskValue(dist, strength, radius_factor) ==
    LET tnum == dist - radius_factor
        tden == CornerDistance - radius_factor
    IN  IF tnum <= 0 THEN 255
        ELSE IF tnum >= tden THEN (255 * (Scale - strength)) \div Scale
        ELSE 255 - CeilOf255Times(strength * tnum, Scale * tden)

\* The locals of apply_vignette_fast before the upscaling (lines 206-222).
VignetteLocals(image, strength, radius_factor) ==
    LET sw == Max(1, image.w \div 8)
        sh == Max(1, image.h \div 8)
    IN  [sw |-> sw, sh |-> sh,
         dist |-> [xy \in Coords(sw, sh) |-> MaskDistance(sw, sh, xy[1], xy[2])],
         pixels |-> [xy \in Coords(sw, sh) |->
                       MaskValue(MaskDistance(sw, sh, xy[1], xy[2]),
                                 strength, radius_factor)]]

\* v / 255 rounded, as the compositing does it.
Div255(v) == ((v + 128) + ((v + 128) \div 256)) \div 256

\* Image.composite(image1, image2, mask) of one pixel.
CompositePixel(p, q, m) ==
    [c \in 1..3 |-> Div255(p[c] * m + q[c] * (255 - m))]

\* The pixels of apply_vignette_fast (lines 225-228).
VignetteData(image, strength, radius_factor) ==
    LET loc == VignetteLocals(image, strength, radius_factor)
        mask == ResizeBilinear(loc.pixels, loc.sw, loc.sh, image.w, image.h)
    IN  [xy \in Coords(image.w, image.h) |->
            CompositePixel(image.data[xy], <<0, 0, 0>>, mask[xy])]

\* The locals of apply_regional_blur after line 239, from generator state g
\* (the second draw of the call gives top).
BlurLocals(image, region_fraction, g) ==
    LET h == image.h
        band_height == Max(1, (h * region_fraction) \div Scale)
        top == RandInt(0, Max(0, h - band_height), RngOut(RngNext(g)))
    IN  [h |-> h, band_height |-> band_height, top |-> top,
         bottom |-> Min(h, top + band_height)]

\* band.filter(GaussianBlur(radius)) on the rows top..bottom-1: every pixel
\* of the band becomes a weighted mean of the band's pixels around it (the
\* band's edge repeating beyond it); the weights are those of the smallest
\* kernel, for every radius.
BlurredBand(data, w, top, bottom) ==
    [xy \in (0..(w - 1)) \X (top..(bottom - 1)) |->
        [c \in 1..3 |->
            LET at(dx, dy) == data[<<Clamp(xy[1] + dx, 0, w - 1),
                                     Clamp(xy[2] + dy, top, bottom - 1)>>][c]
                row(dy) == at(-1, dy) + 2 * at(0, dy) + at(1, dy)
            IN  (row(-1) + 2 * row(0) + row(1) + 8) \div 16]]

\* image.copy(); image.paste(band, (0, top)): the band's box is overwritten.
Paste_FromRowZero(data, band, top) ==
    [xy \in DOMAIN data |->
        IF <<xy[1], xy[2] + top>> \in DOMAIN band
        THEN band[<<xy[1], xy[2] + top>>] ELSE data[xy]]
Paste(data, band, top) ==
    [xy \in DOMAIN data |-> IF xy \in DOMAIN band THEN band[xy] ELSE data[xy]]

\* The pixels of apply_regional_blur when it is triggered (lines 236-245).
RegionalBlurData(image, region_fraction, g) ==
    LET loc == BlurLocals(image, region_fraction, g)
    IN  Paste(image.data, BlurredBand(image.data, image.w, loc.top, loc.bottom),
              loc.top)

(***************************************************************************)
(* The pixels of apply_wrinkle (lines 253-345).  The source buffer of a    *)
(* pass is what src_pixels refers to: the input image in the first pass    *)
(* (line 254), and from line 343 on result.load(), the buffer dst_pixels   *)
(* writes to.                                                              *)
(***************************************************************************)

\* math.sin and math.cos of the crease angle (lines 263-264), an angle of
\* at most 0.08 radians: a - a^3 / 6 and 1 - a^2 / 2.
SinSmall(a) ==
    LET m == Abs(a)
        v == m - (m * m * m) \div (6 * Scale * Scale)
    IN  IF a < 0 THEN -v ELSE v

CosSmall(a) == Scale - (a * a) \div (2 * Scale)

\* math.sin(2 * math.pi * along / wavelength) (line 297): the phase is
\* reduced to a half period t in [0, 1) (in thousandths) and its sign, and
\* sin(pi * t) is taken as 16 t (1 - t) / (5 - 4 t (1 - t)).
SinTurn(along, wavelength) ==
    LET r == (along * Scale) % wavelength
        first == 2 * r < wavelength
        a == IF first THEN 2 * r ELSE 2 * r - wavelength
        t == (a * 1000) \div wavelength
        q == t * (1000 - t)
        mag == (1600 * q) \div ((5000000 - 4 * q) \div 100)
    IN  IF first THEN mag ELSE -mag

\* dist of lines 281-286 for pixel (x, y).
CreaseDistance(crease, w, h, x, y) ==
    IF crease.horizontal
    THEN (y - crease.center) * CosSmall(crease.angle)
             + ((2 * x - w) * SinSmall(crease.angle)) \div 2
    ELSE (x - crease.center) * CosSmall(crease.angle)
             + ((2 * y - h) * SinSmall(crease.angle)) \div 2

\* sign of line 332.
ShadowSign_DarkSideOnly(dist) == IF dist > 0 THEN 1 ELSE 0
ShadowSign(dist) == IF dist > 0 THEN 1 ELSE -1

\* 0.06 * 255 of line 334, in hundredths.
ShadowDepth == 1530

\* Line 289: if abs_dist >= falloff: continue (abs_dist in 1/Scale pixels).
OutsideFalloff_Strict(abs_dist, falloff) == abs_dist > falloff * Scale
OutsideFalloff(abs_dist, falloff) == abs_dist >= falloff * Scale

\* Lines 308-309: max(0.0, min(size - 1.001, s)), in 1/Scale pixels.
ClampCoordinate_NoLowerBound(s, size) == Min(size * Scale - 10010, s)
ClampCoordinate(s, size) == Max(0, Min(size * Scale - 10010, s))

\* The body of the loops over y and x (lines 280-340) for pixel (x, y),
\* reading the buffer source: whether the pixel is written, the
\* coordinates read, the bilinear sample and the shadow (in millionths) and
\* the value written.
WrinklePixel(crease, amplitude, w, h, x, y, source) ==
    LET dist == CreaseDistance(crease, w, h, x, y)
        abs_dist == Abs(dist)
        along == IF crease.horizontal THEN x ELSE y
        e1 == Scale - abs_dist \div crease.falloff
        envelope == (e1 * e1) \div Scale
        sine == SinTurn(along, crease.wavelength)
        size == (((amplitude * envelope) \div Scale) * Abs(sine)) \div Scale
        displacement == IF sine < 0 THEN -size ELSE size
        sx == ClampCoordinate(IF crease.horizontal THEN x * Scale
                              ELSE x * Scale + displacement, w)
        sy == ClampCoordinate(IF crease.horizontal THEN y * Scale + displacement
                              ELSE y * Scale, h)
        x0 == sx \div Scale
        y0 == sy \div Scale
        x1 == Min(x0 + 1, w - 1)
        y1 == Min(y0 + 1, h - 1)
        fx == (sx % Scale) \div 10
        fy == (sy % Scale) \div 10
        reads == {<<x0, y0>>, <<x1, y0>>, <<x0, y1>>, <<x1, y1>>}
        raises == ~(reads \subseteq DOMAIN source)
        sample == [c \in 1..3 |->
                      source[<<x0, y0>>][c] * (1000 - fx) * (1000 - fy)
                        + source[<<x1, y0>>][c] * fx * (1000 - fy)
                        + source[<<x0, y1>>][c] * (1000 - fx) * fy
                        + source[<<x1, y1>>][c] * fx * fy]
        near == abs_dist * 10 < crease.falloff * Scale * 4
        shadow_envelope == Scale - (abs_dist * 10) \div (crease.falloff * 4)
        shadow == IF near THEN ShadowSign(dist) * shadow_envelope * ShadowDepth
                  ELSE 0
    IN  IF OutsideFalloff(abs_dist, crease.falloff)
        THEN [written |-> FALSE]
        ELSE IF raises
        THEN [written |-> FALSE, raises |-> TRUE,
              x0 |-> x0, y0 |-> y0, x1 |-> x1, y1 |-> y1, fx |-> fx, fy |-> fy]
        ELSE [written |-> TRUE, raises |-> FALSE,
              x0 |-> x0, y0 |-> y0, x1 |-> x1, y1 |-> y1, fx |-> fx, fy |-> fy,
              reads |-> reads,
              dist |-> dist,
              near |-> near,
              displacement |-> displacement,
              sample |-> sample,
              shadow_envelope |-> shadow_envelope,
              value |-> [c \in 1..3 |->
                           Clamp(Floor(sample[c] - shadow, Micro), 0, 255)]]

\* The pixels of an image: its data where the model carries them, else the
\* operations that produced them.
ContentOf(image) == IF "data" \in DOMAIN image THEN image.data ELSE image.px

\* Line 255: result = image.copy().  The object apply_wrinkle writes to:
\* a copy, not the argument.
WrinkleTarget == "copy"

\* Lines 243-244: image = image.copy(); image.paste(band, (0, top)).  The
\* object apply_regional_blur pastes into.
PasteTarget_Argument == "argument"
PasteTarget == "copy"

VARIABLES
    src, dst,       \* find_perspective_coeffs: the arguments
    A, B,           \* find_perspective_coeffs: the system being reduced
    col,            \* the column the elimination loop is at (1..n, n+1 after it)
    coeffs,         \* the result (<<>> until returned)
    spc,            \* where the solver is: "build", "elim", "back", "done", "raised"
    skipped,        \* history: the columns whose pivot was below 1e-10
    divisors,       \* history: every value the solver has divided by
    seed,           \* main: --seed (NoSeed when not given)
    intensity,      \* distort_pdf / distort_page: the preset name
    pdf,            \* the input document: the sizes <<w, h>> of its pages
    rng,            \* the state of the process-wide generator
    fs,             \* the files: path -> content (Absent when there is none)
    dpc,            \* where main / distort_pdf is
    doc,            \* distort_pdf: the pages of the opened document
    page_num,       \* distort_pdf: the loop index
    distorted_pages,\* distort_pdf: the list of distorted images
    ppc,            \* where distort_page is
    image,          \* distort_page: its local variable image
    params,         \* distort_page: the sampled parameter set
    wpass,          \* apply_wrinkle: passes done
    hist,           \* history of the current run (see InitHist)
    run,            \* 1 in the first execution, 2 in a repeated one
    run1,           \* history: what the first execution did (when run = 2)
    presets,        \* the module-level dict INTENSITY_PRESETS as the process holds it
    heap,           \* the pixels now held by the image object passed to it
    callee,         \* a stage function called on its own: its name
    args,           \* its arguments
    locals,         \* its local variables
    ret,            \* what it returned
    cpc             \* where the call is: "call", "returned", "off"

solveVars == <<src, dst, A, B, col, coeffs, spc, skipped, divisors>>
pipeVars == <<seed, intensity, pdf, rng, fs, dpc, doc, page_num, distorted_pages,
              ppc, image, params, wpass, hist, run, run1, presets>>
\* What the pipeline's steps leave alone, and what the solver's steps do.
stageVars == <<heap, callee, args, locals, ret, cpc>>
nonPipeVars == <<solveVars, stageVars>>
nonSolveVars == <<pipeVars, stageVars>>
\* What a call of one stage function leaves alone: all but the generator.
nonStageVars == <<solveVars, seed, intensity, pdf, fs, dpc, doc, page_num,
                  distorted_pages, ppc, image, params, wpass, hist, run, run1,
                  presets>>
vars == <<solveVars, pipeVars, stageVars>>

\* No stage function is being called on its own.
StagesIdle ==
    /\ heap = <<>>
    /\ callee = "none"
    /\ args = <<>>
    /\ locals = <<>>
    /\ ret = <<>>
    /\ cpc = "off"

\* The pipeline is not running: its variables other than the generator.
PipeOff ==
    /\ seed = 0
    /\ intensity = "medium"
    /\ pdf = <<>>
    /\ fs = <<>>
    /\ dpc = "off"
    /\ doc = <<>>
    /\ page_num = 0
    /\ distorted_pages = <<>>
    /\ ppc = "idle"
    /\ image = <<>>
    /\ params = <<>>
    /\ wpass = 0
    /\ hist = <<>>
    /\ run = 1
    /\ run1 = <<>>
    /\ presets = INTENSITY_PRESETS

\* The pipeline is not running (specification SpecSolve).
PipeIdle ==
    /\ PipeOff
    /\ rng = 0

Points == (0..MaxX) \X (0..MaxY)
Quads == Points \X Points \X Points \X Points

Zero8 == [i \in 1..n |-> RInt(0)]

\* The arguments: either dst = src (any four points), or src the corners of
\* a rectangle (the full grid, or the grid collapsed to zero width) and dst
\* any four points.
InitSolve ==
    /\ \/ /\ src \in Quads
          /\ dst = src
       \/ /\ src \in {Corners(w, MaxY) : w \in {0, MaxX}}
          /\ dst \in Quads
    /\ A = <<>>
    /\ B = <<>>
    /\ col = 1
    /\ coeffs = <<>>
    /\ spc = "build"
    /\ skipped = {}
    /\ divisors = {}
    /\ PipeIdle
    /\ StagesIdle

\* Lines 133-143.
Build ==
    /\ spc = "build"
    /\ A' = MatrixA(BuildMatrix(src, dst))
    /\ B' = MatrixB(BuildMatrix(src, dst))
    /\ spc' = "elim"
    /\ UNCHANGED <<src, dst, col, coeffs, skipped, divisors>>
    /\ UNCHANGED nonSolveVars

\* One iteration of the loop over col (lines 144-163).
EliminateColumn ==
    /\ spc = "elim"
    /\ col <= n
    /\ LET max_row == FindPivotRow(A, col)
           A1 == SwapRows(A, col, max_row)
           B1 == SwapRows(B, col, max_row)
           pivot == A1[col][col]
       IN  IF PivotTooSmall(pivot)
           THEN /\ A' = A1
                /\ B' = B1
                /\ skipped' = skipped \cup {col}
                /\ col' = col + 1
                /\ UNCHANGED <<spc, divisors>>
           ELSE IF RIsZero(pivot) /\ col < n
           THEN \* A[row][col] / pivot raises ZeroDivisionError
                /\ spc' = "raised"
                /\ A' = A1
                /\ B' = B1
                /\ UNCHANGED <<col, skipped, divisors>>
           ELSE /\ A' = EliminateA(A1, col)
                /\ B' = EliminateB(A1, B1, col)
                /\ divisors' = IF col < n THEN divisors \cup {pivot} ELSE divisors
                /\ col' = col + 1
                /\ UNCHANGED <<spc, skipped>>
    /\ UNCHANGED <<src, dst, coeffs>>
    /\ UNCHANGED nonSolveVars

\* The loop is over: back substitution starts (line 166).
EndElimination ==
    /\ spc = "elim"
    /\ col = n + 1
    /\ spc' = "back"
    /\ UNCHANGED <<src, dst, A, B, col, coeffs, skipped, divisors>>
    /\ UNCHANGED nonSolveVars

\* Lines 166-176.
BackSubstitution ==
    /\ spc = "back"
    /\ IF \E i \in 1..n : ~DiagTooSmall(A[i][i]) /\ RIsZero(A[i][i])
       THEN \* s / A[i][i] raises ZeroDivisionError
            /\ spc' = "raised"
            /\ UNCHANGED <<coeffs, divisors>>
       ELSE /\ coeffs' = BackSubstitute(A, B, n, Zero8)
            /\ divisors' = divisors \cup BackDivisors(A)
            /\ spc' = "done"
    /\ UNCHANGED <<src, dst, A, B, col, skipped>>
    /\ UNCHANGED nonSolveVars

NextSolve == Build \/ EliminateColumn \/ EndElimination \/ BackSubstitution

SpecSolve == InitSolve /\ [][NextSolve]_vars

(***************************************************************************)
(* main, distort_pdf and distort_page (lines 348-475).                     *)
(***************************************************************************)
\* seed is None
NoSeed == -1

\* Line 449: if seed is not None
SeedIsTruthy(s) == s # NoSeed /\ s # 0
SeedIsGiven(s) == s # NoSeed

\* The two paths distort_pdf touches: pdf_path and pdf_path + '.tmp'
\* (line 401).
pdf_path == <<"doc.pdf">>
InPlacePath(path) == path
TmpPath(path) == path \o <<".tmp">>
Paths == {pdf_path, TmpPath(pdf_path)}

\* File contents: no file, a file being written, a complete document.
Absent == [exists |-> FALSE, complete |-> FALSE, pages |-> <<>>]
EmptyFile == [exists |-> TRUE, complete |-> FALSE, pages |-> <<>>]
Document(pages) == [exists |-> TRUE, complete |-> TRUE, pages |-> pages]

NoImage == [w |-> 0, h |-> 0, mode |-> "none", px |-> <<>>]

\* Page i (from 0) of the input document, and its rendering by
\* get_pixmap / Image.frombytes('RGB', ...) (lines 387-391).
SourcePage(i, size) ==
    [w |-> size[1], h |-> size[2], mode |-> "pdf", px |-> << <<"page", i>> >>]
Render(page) == [page EXCEPT !.mode = "RGB"]

OriginalFile(d) == Document([i \in 1..Len(d) |-> SourcePage(i - 1, d[i])])

PageSizes == {<<1, 1>>, <<MaxW, MaxH>>}
Docs == UNION {[1..k -> PageSizes] : k \in 0..MaxPages}
PresetNames == {"low", "medium", "high"}

InitHist ==
    [stages |-> <<>>,        \* the stages the current distort_page call has run
     entry_rng |-> 0,        \* the generator state when it was entered
     entry_image |-> NoImage,\* the image it was given
     called |-> <<>>,        \* the page numbers distort_page was called for
     calls |-> <<>>,         \* the calls that returned
     draws |-> <<>>,         \* every generator output consumed
     err |-> "none",         \* the exception that ended the run
     tmp_created |-> FALSE,  \* whether the temporary file was opened
     caller |-> "distort_pdf"]  \* who calls distort_page

\* No except clause anywhere in distort_page, distort_pdf or main: an
\* exception ends the run, whatever the driver was doing.
AfterException_Swallowed(d) == IF d = "page" THEN "loop" ELSE "raised"
AfterException(d) == "raised"

\* Line 400: if distorted_pages:
AlwaysSave(pages) == TRUE
HasPages(pages) == pages # <<>>

\* Lines 402-407: first, then append_images = distorted_pages[1:].
PagesToSave_FromFirst(pages) == <<pages[1]>> \o pages
PagesToSave(pages) ==
    IF Len(pages) > 1 THEN <<pages[1]>> \o Tail(pages) ELSE <<pages[1]>>

\* os.replace(source, target) (line 410).
OsReplace(files, source, target) ==
    [q \in DOMAIN files |->
        IF q = target THEN files[source]
        ELSE IF q = source THEN Absent
        ELSE files[q]]

SolveIdle ==
    /\ src = <<>>
    /\ dst = <<>>
    /\ A = <<>>
    /\ B = <<>>
    /\ col = 1
    /\ coeffs = <<>>
    /\ spc = "off"
    /\ skipped = {}
    /\ divisors = {}

\* Either main is about to run distort_pdf on a document, or distort_page
\* is called directly on an image of any mode.
Init ==
    /\ SolveIdle
    /\ StagesIdle
    /\ rng \in 0..(RngMod - 1)
    /\ intensity \in PresetNames \cup {"bogus"}
    /\ doc = <<>>
    /\ page_num = 0
    /\ distorted_pages = <<>>
    /\ params = <<>>
    /\ wpass = 0
    /\ run = 1
    /\ run1 = <<>>
    /\ presets = INTENSITY_PRESETS
    /\ \/ /\ dpc = "main"
          /\ seed \in {NoSeed} \cup (0..MaxSeed)
          /\ pdf \in Docs
          /\ ppc = "idle"
          /\ image = NoImage
          /\ hist = InitHist
       \/ /\ dpc = "direct"
          /\ seed = NoSeed
          /\ pdf = <<>>
          /\ ppc = "params"
          /\ \E size \in PageSizes, mode \in {"RGB", "L"} :
                image = [Render(SourcePage(0, size)) EXCEPT !.mode = mode]
          /\ hist = [InitHist EXCEPT !.entry_rng = rng, !.entry_image = image,
                                     !.called = <<0>>, !.caller = "direct"]
    /\ fs = [q \in Paths |-> IF q = pdf_path THEN OriginalFile(pdf) ELSE Absent]

\* Lines 449-450.
MainSeed ==
    /\ dpc = "main"
    /\ rng' = IF SeedIsGiven(seed) THEN RandomSeed(seed) ELSE rng
    /\ dpc' = "open"
    /\ UNCHANGED <<seed, intensity, pdf, fs, doc, page_num, distorted_pages,
                   ppc, image, params, wpass, hist, run, run1>>
    /\ UNCHANGED presets
    /\ UNCHANGED nonPipeVars

\* Lines 380-384.
OpenDoc ==
    /\ dpc = "open"
    /\ doc' = fs[pdf_path].pages
    /\ distorted_pages' = <<>>
    /\ page_num' = 0
    /\ dpc' = "loop"
    /\ UNCHANGED <<seed, intensity, pdf, rng, fs, ppc, image, params, wpass,
                   hist, run, run1>>
    /\ UNCHANGED presets
    /\ UNCHANGED nonPipeVars

\* Lines 386-394: the next page is rendered and distort_page is entered.
LoadPage ==
    /\ dpc = "loop"
    /\ page_num < Len(doc)
    /\ image' = Render(doc[page_num + 1])
    /\ dpc' = "page"
    /\ ppc' = "params"
    /\ hist' = [hist EXCEPT !.stages = <<>>,
                            !.entry_rng = rng,
                            !.entry_image = image',
                            !.called = Append(@, page_num)]
    /\ UNCHANGED <<seed, intensity, pdf, rng, fs, doc, page_num, distorted_pages,
                   params, wpass, run, run1>>
    /\ UNCHANGED presets
    /\ UNCHANGED nonPipeVars

InPage == dpc \in {"page", "direct"}

\* Line 350: params = randomize_params(intensity).
RandomizeParams ==
    /\ InPage
    /\ ppc = "params"
    /\ IF KnownPreset(intensity)
       THEN /\ params' = ParamsOfCall(intensity, rng, params)
            /\ rng' = RngAdvance(rng, ParamDraws)
            /\ hist' = [hist EXCEPT !.draws = @ \o Outs(rng, ParamDraws)]
            /\ ppc' = StageAfter("params")
            /\ UNCHANGED dpc
       ELSE /\ rng' = StateAtKeyError(rng)
            /\ hist' = [hist EXCEPT !.err = "KeyError"]
            /\ dpc' = AfterException(dpc)
            /\ ppc' = "raised"
            /\ UNCHANGED params
    /\ UNCHANGED <<seed, intensity, pdf, fs, doc, page_num, distorted_pages,
                   image, wpass, run, run1>>
    /\ presets' = TableAfterSampling(presets, intensity)
    /\ UNCHANGED nonPipeVars

\* A stage that draws nothing: the image is replaced and the next stage is due.
Stage(name, result) ==
    /\ InPage
    /\ ppc = name
    /\ image' = result
    /\ hist' = [hist EXCEPT !.stages = Append(@, name)]
    /\ ppc' = StageAfter(name)
    /\ UNCHANGED <<seed, intensity, pdf, rng, fs, dpc, doc, page_num,
                   distorted_pages, params, wpass, run, run1>>
    /\ UNCHANGED presets
    /\ UNCHANGED nonPipeVars

\* Lines 353-354.
EnsureRGB ==
    Stage("ensure_rgb",
          IF image.mode # "RGB" THEN Convert(image, "RGB") ELSE image)

\* Line 357.
Rotation == Stage("rotation", apply_rotation(image, params.rotation_angle))

\* Line 358.
PerspectiveWarp ==
    /\ InPage
    /\ ppc = "perspective"
    /\ image' = apply_perspective_warp(image, params.perspective_magnitude, rng)
    /\ rng' = RngAdvance(rng, WarpDraws)
    /\ hist' = [hist EXCEPT !.stages = Append(@, "perspective"),
                            !.draws = @ \o Outs(rng, WarpDraws)]
    /\ ppc' = StageAfter("perspective")
    /\ UNCHANGED <<seed, intensity, pdf, fs, dpc, doc, page_num, distorted_pages,
                   params, wpass, run, run1>>
    /\ UNCHANGED presets
    /\ UNCHANGED nonPipeVars

\* Line 359, and the entry of apply_wrinkle (lines 250-256) when the flip
\* succeeds.
WrinkleFlip ==
    /\ InPage
    /\ ppc = "wrinkle"
    /\ rng' = RngNext(rng)
    /\ LET fires == WrinkleFires(RngOut(rng), params.wrinkle_prob)
           noop == WrinkleNoOp(params.wrinkle_count, params.wrinkle_amplitude)
       IN  /\ ppc' = IF fires /\ ~noop THEN "wrinkle_pass" ELSE StageAfter("wrinkle")
           /\ hist' = [hist EXCEPT
                          !.stages = IF fires THEN Append(@, "wrinkle") ELSE @,
                          !.draws = Append(@, RngOut(rng))]
    /\ wpass' = 0
    /\ UNCHANGED <<seed, intensity, pdf, fs, dpc, doc, page_num, distorted_pages,
                   image, params, run, run1>>
    /\ UNCHANGED presets
    /\ UNCHANGED nonPipeVars

\* One iteration of the loop of apply_wrinkle (lines 258-343); after the last
\* one the result is returned to distort_page (lines 345, 360).
WrinklePass ==
    /\ InPage
    /\ ppc = "wrinkle_pass"
    /\ wpass < params.wrinkle_count
    /\ image' = WrinklePassOf(image, params.wrinkle_amplitude, rng)
    /\ rng' = RngAdvance(rng, PassDraws)
    /\ wpass' = wpass + 1
    /\ ppc' = IF wpass' = params.wrinkle_count
              THEN StageAfter("wrinkle") ELSE "wrinkle_pass"
    /\ hist' = [hist EXCEPT !.draws = @ \o Outs(rng, PassDraws)]
    /\ UNCHANGED <<seed, intensity, pdf, fs, dpc, doc, page_num, distorted_pages,
                   params, run, run1>>
    /\ UNCHANGED presets
    /\ UNCHANGED nonPipeVars

\* Line 362.
BrightnessContrast ==
    Stage("brightness_contrast",
          apply_brightness_contrast(image, params.brightness, params.contrast))

\* Line 363.
Noise ==
    /\ InPage
    /\ ppc = "noise"
    /\ image' = apply_noise(image, params.noise_opacity, rng)
    /\ rng' = RngAdvance(rng, NoiseDraws(image))
    /\ hist' = [hist EXCEPT !.stages = Append(@, "noise"),
                            !.draws = @ \o Outs(rng, NoiseDraws(image))]
    /\ ppc' = StageAfter("noise")
    /\ UNCHANGED <<seed, intensity, pdf, fs, dpc, doc, page_num, distorted_pages,
                   params, wpass, run, run1>>
    /\ UNCHANGED presets
    /\ UNCHANGED nonPipeVars

\* Lines 364-365.
Vignette ==
    Stage("vignette",
          apply_vignette_fast(image, params.vignette_strength,
                              params.vignette_radius))

\* Lines 366-368.
RegionalBlur ==
    /\ InPage
    /\ ppc = "regional_blur"
    /\ LET k == RngOut(rng)
           b == BlurDraws(k, params.regional_blur_prob)
       IN  /\ image' = apply_regional_blur(image, params.regional_blur_prob,
                                           params.regional_blur_radius,
                                           params.regional_blur_fraction, rng)
           /\ rng' = RngAdvance(rng, b)
           /\ hist' = [hist EXCEPT
                          !.stages = IF BlurSkipped(k, params.regional_blur_prob)
                                     THEN @ ELSE Append(@, "regional_blur"),
                          !.draws = @ \o Outs(rng, b)]
    /\ ppc' = StageAfter("regional_blur")
    /\ UNCHANGED <<seed, intensity, pdf, fs, dpc, doc, page_num, distorted_pages,
                   params, wpass, run, run1>>
    /\ UNCHANGED presets
    /\ UNCHANGED nonPipeVars

\* Line 370, and in distort_pdf line 395 and the step of the loop.
ReturnPage ==
    /\ InPage
    /\ ppc = "return"
    /\ ppc' = "idle"
    /\ hist' = [hist EXCEPT !.calls =
                   Append(@, [page |-> hist.called[Len(hist.called)],
                              rng |-> hist.entry_rng,
                              input |-> hist.entry_image,
                              preset |-> intensity,
                              stages |-> hist.stages,
                              output |-> image])]
    /\ IF dpc = "page"
       THEN /\ distorted_pages' = Append(distorted_pages, image)
            /\ page_num' = page_num + 1
            /\ dpc' = "loop"
       ELSE /\ dpc' = "returned"
            /\ UNCHANGED <<distorted_pages, page_num>>
    /\ UNCHANGED <<seed, intensity, pdf, rng, fs, doc, image, params, wpass,
                   run, run1>>
    /\ UNCHANGED presets
    /\ UNCHANGED nonPipeVars

\* Line 397, after the last page.
CloseDoc ==
    /\ dpc = "loop"
    /\ page_num = Len(doc)
    /\ dpc' = "save"
    /\ UNCHANGED <<seed, intensity, pdf, rng, fs, doc, page_num, distorted_pages,
                   ppc, image, params, wpass, hist, run, run1>>
    /\ UNCHANGED presets
    /\ UNCHANGED nonPipeVars

\* Lines 400-407: first.save opens the temporary file for writing.
SaveOpen ==
    /\ dpc = "save"
    /\ HasPages(distorted_pages)
    /\ IF distorted_pages = <<>>
       THEN \* first = distorted_pages[0] raises IndexError
            /\ dpc' = AfterException(dpc)
            /\ hist' = [hist EXCEPT !.err = "IndexError"]
            /\ UNCHANGED fs
       ELSE /\ fs' = [fs EXCEPT ![TmpPath(pdf_path)] = EmptyFile]
            /\ hist' = [hist EXCEPT !.tmp_created = TRUE]
            /\ dpc' = "write"
    /\ UNCHANGED <<seed, intensity, pdf, rng, doc, page_num, distorted_pages,
                   ppc, image, params, wpass, run, run1>>
    /\ UNCHANGED presets
    /\ UNCHANGED nonPipeVars

\* Line 400 with an empty list: nothing is saved, distort_pdf returns.
ReturnNothing ==
    /\ dpc = "save"
    /\ ~HasPages(distorted_pages)
    /\ dpc' = "done"
    /\ UNCHANGED <<seed, intensity, pdf, rng, fs, doc, page_num, distorted_pages,
                   ppc, image, params, wpass, hist, run, run1>>
    /\ UNCHANGED presets
    /\ UNCHANGED nonPipeVars

\* The save in progress: one more page reaches the temporary file.
WritePage ==
    /\ dpc = "write"
    /\ LET out == PagesToSave(distorted_pages)
           done == Len(fs[TmpPath(pdf_path)].pages)
       IN  /\ done < Len(out)
           /\ fs' = [fs EXCEPT ![TmpPath(pdf_path)].pages = Append(@, out[done + 1])]
    /\ UNCHANGED <<seed, intensity, pdf, rng, dpc, doc, page_num, distorted_pages,
                   ppc, image, params, wpass, hist, run, run1>>
    /\ UNCHANGED presets
    /\ UNCHANGED nonPipeVars

\* The save ends: the temporary file is complete and closed.
WriteClose ==
    /\ dpc = "write"
    /\ Len(fs[TmpPath(pdf_path)].pages) = Len(PagesToSave(distorted_pages))
    /\ fs' = [fs EXCEPT ![TmpPath(pdf_path)].complete = TRUE]
    /\ dpc' = "replace"
    /\ UNCHANGED <<seed, intensity, pdf, rng, doc, page_num, distorted_pages,
                   ppc, image, params, wpass, hist, run, run1>>
    /\ UNCHANGED presets
    /\ UNCHANGED nonPipeVars

\* Line 410: os.replace(tmp_path, pdf_path); distort_pdf returns.
Replace ==
    /\ dpc = "replace"
    /\ fs' = OsReplace(fs, TmpPath(pdf_path), pdf_path)
    /\ dpc' = "done"
    /\ UNCHANGED <<seed, intensity, pdf, rng, doc, page_num, distorted_pages,
                   ppc, image, params, wpass, hist, run, run1>>
    /\ UNCHANGED presets
    /\ UNCHANGED nonPipeVars

\* fitz.open raises (line 380).
OpenRaises ==
    /\ dpc = "open"
    /\ dpc' = AfterException(dpc)
    /\ hist' = [hist EXCEPT !.err = "open"]
    /\ UNCHANGED <<seed, intensity, pdf, rng, fs, doc, page_num, distorted_pages,
                   ppc, image, params, wpass, run, run1>>
    /\ UNCHANGED presets
    /\ UNCHANGED nonPipeVars

StagePcs == {"ensure_rgb", "rotation", "perspective", "wrinkle", "wrinkle_pass",
             "brightness_contrast", "noise", "vignette", "regional_blur"}

\* A library call of a stage raises (lines 354-368): the exception leaves
\* distort_page, and distort_pdf, at once.
StageRaises ==
    /\ InPage
    /\ ppc \in StagePcs
    /\ dpc' = AfterException(dpc)
    /\ ppc' = "raised"
    /\ hist' = [hist EXCEPT !.err = ppc]
    /\ UNCHANGED <<seed, intensity, pdf, rng, fs, doc, page_num, distorted_pages,
                   image, params, wpass, run, run1>>
    /\ UNCHANGED presets
    /\ UNCHANGED nonPipeVars

\* first.save raises while writing (lines 404-407); Pillow may remove the
\* file it was writing.
SaveRaises ==
    /\ dpc = "write"
    /\ dpc' = AfterException(dpc)
    /\ hist' = [hist EXCEPT !.err = "save"]
    /\ \/ fs' = fs
       \/ fs' = [fs EXCEPT ![TmpPath(pdf_path)] = Absent]
    /\ UNCHANGED <<seed, intensity, pdf, rng, doc, page_num, distorted_pages,
                   ppc, image, params, wpass, run, run1>>
    /\ UNCHANGED presets
    /\ UNCHANGED nonPipeVars

\* os.replace raises (line 410).
ReplaceRaises ==
    /\ dpc = "replace"
    /\ dpc' = AfterException(dpc)
    /\ hist' = [hist EXCEPT !.err = "replace"]
    /\ UNCHANGED <<seed, intensity, pdf, rng, fs, doc, page_num, distorted_pages,
                   ppc, image, params, wpass, run, run1>>
    /\ UNCHANGED presets
    /\ UNCHANGED nonPipeVars

Running == {"main", "open", "loop", "page", "save", "write", "replace", "direct"}

\* The process is killed, at any point.
Crash ==
    /\ dpc \in Running
    /\ dpc' = "crashed"
    /\ UNCHANGED <<seed, intensity, pdf, rng, fs, doc, page_num, distorted_pages,
                   ppc, image, params, wpass, hist, run, run1>>
    /\ UNCHANGED presets
    /\ UNCHANGED nonPipeVars

\* The program is run a second time with the same --seed on the same input
\* document and preset, in a new process (a new generator).
Rerun ==
    /\ dpc = "done"
    /\ run = 1
    /\ seed # NoSeed
    /\ run' = 2
    /\ run1' = [hist |-> hist, out |-> fs[pdf_path]]
    /\ rng' \in 0..(RngMod - 1)
    /\ fs' = [q \in Paths |-> IF q = pdf_path THEN OriginalFile(pdf) ELSE Absent]
    /\ dpc' = "main"
    /\ doc' = <<>>
    /\ page_num' = 0
    /\ distorted_pages' = <<>>
    /\ ppc' = "idle"
    /\ image' = NoImage
    /\ params' = <<>>
    /\ wpass' = 0
    /\ hist' = InitHist
    /\ presets' = INTENSITY_PRESETS
    /\ UNCHANGED <<seed, intensity, pdf>>
    /\ UNCHANGED nonPipeVars

Next ==
    \/ MainSeed \/ OpenDoc \/ LoadPage
    \/ RandomizeParams \/ EnsureRGB \/ Rotation \/ PerspectiveWarp
    \/ WrinkleFlip \/ WrinklePass \/ BrightnessContrast \/ Noise \/ Vignette
    \/ RegionalBlur \/ ReturnPage
    \/ CloseDoc \/ SaveOpen \/ ReturnNothing \/ WritePage \/ WriteClose \/ Replace
    \/ OpenRaises \/ StageRaises \/ SaveRaises \/ ReplaceRaises \/ Crash
    \/ Rerun

Spec == Init /\ [][Next]_vars

(***************************************************************************)
(* Claims about distort_page and distort_pdf.                              *)
(***************************************************************************)
IsPrefix(s, t) == Len(s) <= Len(t) /\ \A i \in 1..Len(s) : s[i] = t[i]

InitialFs == [q \in Paths |-> IF q = pdf_path THEN OriginalFile(pdf) ELSE Absent]

\* The stages of one complete call, with and without the optional ones.
FullOrder(wrinkled, blurred) ==
    <<"ensure_rgb", "rotation", "perspective">>
        \o (IF wrinkled THEN <<"wrinkle">> ELSE <<>>)
        \o <<"brightness_contrast", "noise", "vignette">>
        \o (IF blurred THEN <<"regional_blur">> ELSE <<>>)

FullOrders == {FullOrder(wr, bl) : wr \in BOOLEAN, bl \in BOOLEAN}

\* The operations each stage leaves in the pixels of the image it returns.
StageOps(stage, mode, passes) ==
    CASE stage = "ensure_rgb" -> IF mode # "RGB" THEN <<"convert">> ELSE <<>>
      [] stage = "rotation" -> <<"rotate", "crop">>
      [] stage = "perspective" -> <<"perspective">>
      [] stage = "wrinkle" -> [i \in 1..passes |-> "wrinkle"]
      [] stage = "brightness_contrast" -> <<"brightness", "contrast">>
      [] stage = "noise" -> <<"noise">>
      [] stage = "vignette" -> <<"vignette">>
      [] stage = "regional_blur" -> <<"blur">>

RECURSIVE OpsOfStages(_, _, _)
OpsOfStages(stages, mode, passes) ==
    IF stages = <<>> THEN <<>>
    ELSE StageOps(Head(stages), mode, passes)
            \o OpsOfStages(Tail(stages), mode, passes)

OpNames(px) == [i \in 1..Len(px) |-> px[i][1]]

\* C1: in every execution of distort_page the stages run in the fixed order
\* RGB conversion, rotation, perspective warp, wrinkle (optional),
\* brightness/contrast, grain noise, vignette, regional blur (optional);
\* every returned call ran each mandatory stage exactly once; and each stage
\* worked on the image the previous one produced (the pixels of the image
\* held are the stages' operations, in that order, on the rendered page).
C1_StageOrder ==
    /\ \E o \in FullOrders : IsPrefix(hist.stages, o)
    /\ ppc = "return" => hist.stages \in FullOrders
    /\ \A i \in 1..Len(hist.calls) : hist.calls[i].stages \in FullOrders
    /\ image # NoImage =>
          OpNames(image.px) =
              <<"page">> \o OpsOfStages(hist.stages, hist.entry_image.mode, wpass)

C1_Witness ==
    /\ hist.calls # <<>>
    /\ hist.calls[1].stages = FullOrder(TRUE, TRUE)
    /\ hist.calls[1].input.mode = "L"

\* C2: at every point of distort_pdf, a crash or an exception at any step
\* included, pdf_path holds the complete original document or the complete
\* distorted one; pdf_path changes only in the os.replace step, which
\* happens only when the temporary file is completely written, and puts the
\* temporary file's content there.
C2_Intact ==
    hist.caller = "distort_pdf" =>
        \/ fs[pdf_path] = OriginalFile(pdf)
        \/ /\ dpc = "done"
           /\ distorted_pages # <<>>
           /\ fs[pdf_path] = Document(distorted_pages)

C2_OnlyReplace ==
    (run' = run /\ fs'[pdf_path] # fs[pdf_path]) =>
        /\ dpc = "replace"
        /\ dpc' = "done"
        /\ fs[pdf_path \o <<".tmp">>].complete
        /\ fs'[pdf_path] = fs[pdf_path \o <<".tmp">>]

C2_AtomicReplace == [](C2_Intact) /\ [][C2_OnlyReplace]_vars

C2_Witness ==
    /\ dpc = "crashed"
    /\ fs[pdf_path] = OriginalFile(pdf)
    /\ fs[TmpPath(pdf_path)].exists
    /\ ~fs[TmpPath(pdf_path)].complete
    /\ Len(fs[TmpPath(pdf_path)].pages) = 1
    /\ Len(distorted_pages) = 2

\* C3: two runs from the same seed on the same input, preset and page order
\* consume the same sequence of draws, take the same wrinkle and blur
\* branches and produce identical images; and the result of distort_page is
\* a function of (generator state at entry, input image, preset) only.
AllCalls ==
    {hist.calls[i] : i \in 1..Len(hist.calls)}
        \cup (IF run = 2
              THEN {run1.hist.calls[i] : i \in 1..Len(run1.hist.calls)}
              ELSE {})

C3_Deterministic ==
    /\ run = 2 =>
          /\ IsPrefix(hist.draws, run1.hist.draws)
          /\ IsPrefix(hist.calls, run1.hist.calls)
          /\ dpc = "done" =>
                /\ hist.draws = run1.hist.draws
                /\ hist.calls = run1.hist.calls
                /\ fs[pdf_path] = run1.out
    /\ \A c1, c2 \in AllCalls :
          (c1.rng = c2.rng /\ c1.input = c2.input /\ c1.preset = c2.preset)
              => (c1.output = c2.output /\ c1.stages = c2.stages)

C3_Witness ==
    /\ run = 2
    /\ dpc = "done"
    /\ Len(hist.calls) = 2
    /\ fs[pdf_path] = run1.out
    /\ \E i \in 1..2 : hist.calls[i].stages # FullOrder(FALSE, FALSE)

\* C4: for every input image of width w >= 1 and height h >= 1, the image
\* held after each stage of distort_page, and the image it returns, is w
\* wide and h high.
C4_SameDimensions ==
    /\ image.w = hist.entry_image.w
    /\ image.h = hist.entry_image.h
    /\ \A i \in 1..Len(hist.calls) :
          /\ hist.calls[i].output.w = hist.calls[i].input.w
          /\ hist.calls[i].output.h = hist.calls[i].input.h

C4_Witness ==
    /\ hist.calls # <<>>
    /\ hist.calls[1].input.w = MaxW
    /\ hist.calls[1].input.h = MaxH
    /\ hist.calls[1].output.w = MaxW
    /\ hist.calls[1].output.h = MaxH
    /\ hist.calls[1].stages = FullOrder(TRUE, TRUE)

\* C5: for a document of N pages distort_pdf calls distort_page exactly N
\* times, for the page numbers 0..N-1 in increasing order, and the document
\* it writes has exactly N pages, page i being the distortion of input
\* page i.
C5_OncePerPageInOrder ==
    hist.caller = "distort_pdf" =>
        /\ Len(hist.called) <= Len(pdf)
        /\ \A i \in 1..Len(hist.called) : hist.called[i] = i - 1
        /\ dpc \in {"save", "write", "replace", "done"} =>
              /\ Len(hist.called) = Len(pdf)
              /\ Len(hist.calls) = Len(pdf)
              /\ Len(distorted_pages) = Len(pdf)
              /\ \A i \in 1..Len(pdf) :
                    /\ hist.calls[i].page = i - 1
                    /\ hist.calls[i].input = Render(SourcePage(i - 1, pdf[i]))
                    /\ distorted_pages[i] = hist.calls[i].output
        /\ dpc = "done" =>
              /\ fs[pdf_path].complete
              /\ Len(fs[pdf_path].pages) = Len(pdf)
              /\ \A i \in 1..Len(pdf) :
                    fs[pdf_path].pages[i] = hist.calls[i].output

C5_Witness ==
    /\ dpc = "done"
    /\ Len(pdf) = MaxPages
    /\ pdf[1] # pdf[MaxPages]
    /\ Len(fs[pdf_path].pages) = MaxPages
    /\ fs[pdf_path].pages[MaxPages].px[1] = <<"page", MaxPages - 1>>

\* C6: distort_page called with a preset name other than low, medium, high
\* raises before any draw is consumed and before any transform is applied:
\* the generator state and the image are as they were at the call.
C6_UnknownPresetNoWork ==
    intensity \notin PresetNames =>
        /\ ppc \in {"idle", "params", "raised"}
        /\ hist.draws = <<>>
        /\ hist.stages = <<>>
        /\ hist.calls = <<>>
        /\ ppc = "raised" =>
              /\ dpc = "raised"
              /\ hist.err = "KeyError"
              /\ rng = hist.entry_rng
              /\ image = hist.entry_image

C6_Witness ==
    /\ intensity \notin PresetNames
    /\ hist.caller = "distort_pdf"
    /\ ppc = "raised"
    /\ dpc = "raised"
    /\ hist.err = "KeyError"

\* C7 as stated: given a document of zero pages, distort_pdf fails fast with
\* an error reported to its caller (and writes nothing): it never returns
\* normally.
C7_EmptyDocumentRaises ==
    (hist.caller = "distort_pdf" /\ pdf = <<>>) =>
        /\ dpc # "done"
        /\ fs = InitialFs

\* C7 amended: given a document of zero pages, distort_pdf calls
\* distort_page zero times, writes nothing (pdf_path unchanged, no temporary
\* file) and raises no error of its own (the only error possible is one
\* from opening the document): it returns normally.
C7_EmptyDocumentSilent ==
    (hist.caller = "distort_pdf" /\ pdf = <<>>) =>
        /\ hist.called = <<>>
        /\ fs = InitialFs
        /\ ~hist.tmp_created
        /\ hist.err \in {"none", "open"}
        /\ dpc \in {"main", "open", "loop", "save", "done", "raised", "crashed"}

C7_Witness ==
    /\ hist.caller = "distort_pdf"
    /\ pdf = <<>>
    /\ dpc = "done"
    /\ hist.err = "none"
    /\ fs = InitialFs

\* C8: an exception raised in a stage of distort_page reaches the caller:
\* no stage is retried and no image is returned for that call; in
\* distort_pdf it ends the run before any file is written, so pdf_path is
\* unchanged and no temporary file has been created.
NoRepeat(s) == \A i, j \in 1..Len(s) : i # j => s[i] # s[j]

C8_FailurePropagates ==
    /\ hist.err # "none" => dpc = "raised"
    /\ NoRepeat(hist.stages)
    /\ NoRepeat(hist.called)
    /\ hist.err \in StagePcs \cup {"KeyError"} =>
          /\ ppc = "raised"
          /\ Len(hist.calls) = Len(hist.called) - 1
          /\ hist.caller = "distort_pdf" =>
                /\ Len(distorted_pages) = Len(hist.calls)
                /\ fs = InitialFs
                /\ ~hist.tmp_created

C8_Witness ==
    /\ dpc = "raised"
    /\ hist.err = "noise"
    /\ hist.caller = "distort_pdf"
    /\ Len(hist.calls) = 1
    /\ fs = InitialFs

\* The value of the coin flip of line 359 in the call of distort_page that
\* is returning: the draw that follows those of randomize_params and of
\* apply_perspective_warp.
WrinkleCoin ==
    CHOOSE coin \in
        {Unit(RngOut(after_warp)) :
            after_warp \in {RngAdvance(after_params, WarpDraws) :
                after_params \in {RngAdvance(hist.entry_rng, ParamDraws)}}} :
        TRUE

IsWrinkleOp(op) == op[1] = "wrinkle"

\* The wrinkle passes recorded in the pixels of an image.
WrinkleOps(px) == SelectSeq(px, IsWrinkleOp)

\* The passes are one block of px: each worked on the output of the one
\* before.
Consecutive(px) ==
    \A i, j \in 1..Len(px) :
        (i < j /\ IsWrinkleOp(px[i]) /\ IsWrinkleOp(px[j]))
            => \A k \in i..j : IsWrinkleOp(px[k])

Returning == InPage /\ ppc = "return"

\* C24: the wrinkle stage of distort_page runs if and only if the per-page
\* uniform draw is below the preset's wrinkle_prob; when it runs it
\* executes exactly wrinkle_count passes, one after another, all with the
\* sampled wrinkle_amplitude; and since every preset has wrinkle_count >= 1
\* and wrinkle_amplitude >= 1, the no-op guard of apply_wrinkle never
\* suppresses a wrinkle that fired.
C24_WrinkleRunsSampledPasses ==
    Returning =>
        LET fired == WrinkleCoin < params.wrinkle_prob
            passes == WrinkleOps(image.px)
        IN  /\ fired <=> (\E i \in 1..Len(hist.stages) : hist.stages[i] = "wrinkle")
            /\ Len(passes) = IF fired THEN params.wrinkle_count ELSE 0
            /\ \A i \in 1..Len(passes) : passes[i][7] = params.wrinkle_amplitude
            /\ Consecutive(image.px)
            /\ params.wrinkle_count >= 1
            /\ params.wrinkle_amplitude >= Scale

\* A page returns after a wrinkle of three passes followed by the later
\* stages.
C24_Witness ==
    /\ Returning
    /\ WrinkleCoin < params.wrinkle_prob
    /\ params.wrinkle_count = 3
    /\ Len(WrinkleOps(image.px)) = 3
    /\ Len(image.px) > 3 + 4

\* The operation op, recorded in the pixels of a w x h image by a stage of
\* the call of distort_page entered with generator state g, was made with
\* the values of the parameter set ps.
UsesParams(op, ps, w, h, g) ==
    CASE op[1] = "rotate" -> op[2] = ps.rotation_angle
      [] op[1] = "perspective" ->
            op[3] = WarpDst(w, h, ps.perspective_magnitude,
                            Outs(RngAdvance(g, ParamDraws), WarpDraws))
      [] op[1] = "wrinkle" -> op[7] = ps.wrinkle_amplitude
      [] op[1] = "brightness" -> op[2] = ps.brightness
      [] op[1] = "contrast" -> op[2] = ps.contrast
      [] op[1] = "noise" -> op[3] = ps.noise_opacity
      [] op[1] = "vignette" ->
            op[2] = ps.vignette_strength /\ op[3] = ps.vignette_radius
      [] op[1] = "blur" ->
            /\ op[4] = ps.regional_blur_radius
            /\ op[3] - op[2] =
                  Min(h, Max(1, (h * ps.regional_blur_fraction) \div Scale))
      [] OTHER -> TRUE

AllUseParams(im, ps, g) ==
    \A k \in 1..Len(im.px) : UsesParams(im.px[k], ps, im.w, im.h, g)

\* The call of distort_page in progress has sampled its parameters.
Sampled == InPage /\ ppc \notin {"idle", "params", "raised"}

\* C28: each call of distort_page samples its parameter set exactly once,
\* before any stage runs, and every stage of that page uses the values of
\* that one set; no sampled value is kept after the call: the set of each
\* page is the one sampled from the generator when that page's call was
\* entered.
C28_OneFreshParameterSetPerPage ==
    /\ (InPage /\ ppc = "params") =>
          (hist.stages = <<>> /\ image = hist.entry_image /\ rng = hist.entry_rng)
    /\ (InPage /\ ppc = "ensure_rgb") =>
          rng = RngAdvance(hist.entry_rng, ParamDraws)
    /\ Sampled =>
          /\ params = randomize_params(intensity, hist.entry_rng)
          /\ AllUseParams(image, params, hist.entry_rng)
    /\ \A i \in 1..Len(hist.calls) :
          AllUseParams(hist.calls[i].output,
                       randomize_params(hist.calls[i].preset, hist.calls[i].rng),
                       hist.calls[i].rng)

\* The second page of a document is returning, blurred, with a parameter
\* set that differs from the first page's in brightness and in wrinkle
\* count.
C28_Witness ==
    /\ Returning
    /\ Len(hist.calls) = 1
    /\ \E k \in 1..Len(image.px) : image.px[k][1] = "blur"
    /\ LET first == randomize_params(hist.calls[1].preset, hist.calls[1].rng)
       IN  /\ params.brightness # first.brightness
           /\ params.wrinkle_count # first.wrinkle_count

(***************************************************************************)
(* Claims about find_perspective_coeffs.                                   *)
(***************************************************************************)
IdentityCoeffs ==
    [i \in 1..n |-> IF i \in {1, 5} THEN RInt(1) ELSE RInt(0)]

Collinear(p, q, r) ==
    (q[1] - p[1]) * (r[2] - p[2]) - (q[2] - p[2]) * (r[1] - p[1]) = 0

\* No three of the four points lie on one line.
GeneralPosition(q) ==
    \A i, j, k \in 1..4 :
        (i < j /\ j < k) => ~Collinear(q[i], q[j], q[k])

C10_NoSmallDivisorNoRaise ==
    /\ spc # "raised"
    /\ \A v \in divisors : ~BelowEps(v)
    /\ \A c \in skipped : BelowEps(A[c][c])
    /\ spc = "done" =>
          /\ DOMAIN coeffs = 1..8
          /\ \A c \in skipped : coeffs[c] = RInt(0)

C10_Witness ==
    /\ spc = "done"
    /\ skipped # {}
    /\ divisors # {}
    /\ \E c \in skipped : \E i \in 1..n : i # c /\ coeffs[i] # RInt(0)

\* a*x + b*y + c = X * (g*x + h*y + 1) and d*x + e*y + f = Y * (g*x + h*y + 1)
\* for the coefficients c8 = (a, b, c, d, e, f, g, h), the destination point
\* to = (x, y) and the source point from = (X, Y).
MapsBack(c8, to, from) ==
    LET x == RInt(to[1])
        y == RInt(to[2])
        denominator == RAdd(RAdd(RMul(c8[7], x), RMul(c8[8], y)), RInt(1))
    IN  /\ RAdd(RAdd(RMul(c8[1], x), RMul(c8[2], y)), c8[3])
              = RMul(RInt(from[1]), denominator)
        /\ RAdd(RAdd(RMul(c8[4], x), RMul(c8[5], y)), c8[6])
              = RMul(RInt(from[2]), denominator)

\* C26: for four correspondences in general position (no pivot skipped),
\* the coefficients (a,b,c,d,e,f,g,h) returned by
\* find_perspective_coeffs(src, dst) map each destination point (x, y) to
\* its source point (X, Y): a*x + b*y + c = X * (g*x + h*y + 1) and
\* d*x + e*y + f = Y * (g*x + h*y + 1) for all four pairs.
C26_CoefficientsMapDstToSrc ==
    (spc = "done" /\ skipped = {}) =>
        \A i \in 1..4 : MapsBack(coeffs, dst[i], src[i])

\* A solved correspondence between two different quadrilaterals in general
\* position, with a projective part (g or h not zero), whose coefficients
\* do not map the source points to the destination points.
C26_Witness ==
    /\ spc = "done"
    /\ skipped = {}
    /\ GeneralPosition(src)
    /\ GeneralPosition(dst)
    /\ src # dst
    /\ (coeffs[7] # RInt(0) \/ coeffs[8] # RInt(0))
    /\ \E i \in 1..4 : ~MapsBack(coeffs, src[i], dst[i])

\* C11: for every preset and every sequence of draws the generator gives,
\* the parameter set randomize_params returns lies inside the configured
\* ranges: the six preset-ranged values in the preset's (min, max), the
\* magnitude of rotation_angle in the preset's rotation range, wrinkle_count
\* in the preset's inclusive integer range, vignette_radius in [0.7, 0.9],
\* regional_blur_radius in [1.5, 3.0], regional_blur_fraction in
\* [0.05, 0.15], and the two probabilities equal to the preset's.
Within(v, range) == range[1] <= v /\ v <= range[2]

ParamsInRange(ps, p) ==
    /\ Within(Abs(ps.rotation_angle), p.rotation)
    /\ Within(ps.noise_opacity, p.noise_opacity)
    /\ Within(ps.brightness, p.brightness)
    /\ Within(ps.contrast, p.contrast)
    /\ Within(ps.perspective_magnitude, p.perspective)
    /\ Within(ps.vignette_strength, p.vignette_strength)
    /\ Within(ps.wrinkle_amplitude, p.wrinkle_amplitude)
    /\ ps.wrinkle_count \in p.wrinkle_count[1]..p.wrinkle_count[2]
    /\ Within(ps.vignette_radius, <<7000, 9000>>)
    /\ Within(ps.regional_blur_radius, <<15000, 30000>>)
    /\ Within(ps.regional_blur_fraction, <<500, 1500>>)
    /\ ps.regional_blur_prob = p.regional_blur_prob
    /\ ps.wrinkle_prob = p.wrinkle_prob

C11_ParamsInRange ==
    params # <<>> => ParamsInRange(params, INTENSITY_PRESETS[intensity])

\* A negative rotation angle was drawn, with the wrinkle count at the top of
\* its range and the noise opacity at the bottom of its range.
C11_Witness ==
    /\ params # <<>>
    /\ params.rotation_angle < 0
    /\ params.wrinkle_count = INTENSITY_PRESETS[intensity].wrinkle_count[2]
    /\ params.noise_opacity = INTENSITY_PRESETS[intensity].noise_opacity[1]

\* C12: in every reachable state the preset table has min <= max in every
\* range of every preset and every probability in [0, 1], and it is the
\* table of lines 25-62: no step of the pipeline or the sampler changes it.
RangeKeys ==
    {"rotation", "noise_opacity", "brightness", "contrast", "perspective",
     "vignette_strength", "wrinkle_count", "wrinkle_amplitude"}

ProbabilityKeys == {"regional_blur_prob", "wrinkle_prob"}

WellFormedTable(table) ==
    \A name \in DOMAIN table :
        /\ \A k \in RangeKeys : table[name][k][1] <= table[name][k][2]
        /\ \A k \in ProbabilityKeys : Within(table[name][k], <<0, Scale>>)

C12_TableWellFormedAndFixed ==
    /\ WellFormedTable(presets)
    /\ presets = INTENSITY_PRESETS

\* The sampler has run for two pages and the run has completed.
C12_Witness ==
    /\ dpc = "done"
    /\ Len(hist.calls) = 2
    /\ hist.draws # <<>>
    /\ WellFormedTable(presets)

(***************************************************************************)
(* The stage functions called on their own (specification SpecStages):     *)
(* one call of one function, on arguments of any value the function        *)
(* accepts, from any state of the generator.                               *)
(***************************************************************************)

\* A side far longer than any page side at the sizes of MaxW and MaxH.
LongSide == 2400

\* The rotation angles randomize_params can return: both ends and the
\* middle of each preset's range, with either sign.
RotationAngles ==
    UNION {{sgn * INTENSITY_PRESETS[name].rotation[1],
            sgn * INTENSITY_PRESETS[name].rotation[2],
            sgn * ((INTENSITY_PRESETS[name].rotation[1]
                      + INTENSITY_PRESETS[name].rotation[2]) \div 2)} :
               name \in PresetNames, sgn \in {-1, 1}}

RotationSizes ==
    ((1..MaxW) \X (1..MaxH))
        \cup {<<LongSide - 400, 1>>, <<LongSide, 1>>, <<1, LongSide>>,
              <<LongSide, MaxH>>, <<LongSide, LongSide>>}

RotationArgs ==
    {[image |-> Render(SourcePage(0, size)), angle |-> a] :
        size \in RotationSizes, a \in RotationAngles}

\* Test images with pixel values: two patterns that use the whole range
\* of every channel.
TestPixel(k, x, y) ==
    <<(37 * x + 101 * y + 60 * k) % 256,
      (255 - 17 * x * k) % 256,
      IF (x + y + k) % 2 = 0 THEN 255 ELSE 0>>

TestImage(size, k) ==
    [w |-> size[1], h |-> size[2], mode |-> "RGB",
     px |-> << <<"page", k>> >>,
     data |-> [xy \in Coords(size[1], size[2]) |-> TestPixel(k, xy[1], xy[2])]]

ImageSizes == {<<1, 1>>, <<MaxW, MaxH>>, <<2 * MaxW, 3 * MaxH + 1>>}

TestImages == {TestImage(size, k) : size \in ImageSizes, k \in 1..2}

\* The fractions the filters are called with: the neutral value and the
\* ends of the preset ranges.
NoiseArgs ==
    {[image |-> im, opacity |-> o] : im \in TestImages, o \in {0, 200, 1800}}

BrightnessContrastArgs ==
    {[image |-> im, brightness |-> b, contrast |-> c] :
        im \in TestImages, b \in {8800, Scale, 11200}, c \in {8800, Scale, 11200}}

VignetteSizes == ImageSizes \cup {<<1, 2 * MaxW>>, <<3 * MaxW, 2 * MaxW>>}

VignetteArgs ==
    {[image |-> TestImage(size, 1), strength |-> st, radius_factor |-> rf] :
        size \in VignetteSizes, st \in {0, 1, 500, 4000, Scale},
        rf \in {7000, 8000, 9000}}

RegionalBlurArgs ==
    {[image |-> im, probability |-> pr, radius |-> 15000, region_fraction |-> f] :
        im \in TestImages, pr \in {0, 1500, 5000}, f \in {500, 1500}}

\* Magnitudes at the ends of the preset ranges and between them.
WarpArgs ==
    {[image |-> Render(SourcePage(0, size)), magnitude |-> m] :
        size \in RotationSizes, m \in {10, 30, 80, 150}}

InitStages ==
    /\ SolveIdle
    /\ PipeOff
    /\ locals = <<>>
    /\ ret = <<>>
    /\ cpc = "call"
    /\ \/ /\ callee = "apply_rotation"
          /\ args \in RotationArgs
          /\ rng = 0
       \/ /\ callee = "apply_noise"
          /\ args \in NoiseArgs
          /\ rng \in 0..(RngMod - 1)
       \/ /\ callee = "apply_brightness_contrast"
          /\ args \in BrightnessContrastArgs
          /\ rng = 0
       \/ /\ callee = "apply_vignette_fast"
          /\ args \in VignetteArgs
          /\ rng = 0
       \/ /\ callee = "apply_regional_blur"
          /\ args \in RegionalBlurArgs
          /\ rng \in 0..(RngMod - 1)
       \/ /\ callee = "apply_perspective_warp"
          /\ args \in WarpArgs
          /\ rng \in 0..(RngMod - 1)
    /\ heap = [argument |-> ContentOf(args.image)]

\* apply_rotation(image, angle) (lines 85-94).
CallRotation ==
    /\ cpc = "call"
    /\ callee = "apply_rotation"
    /\ locals' = RotationLocals(args.image, args.angle)
    /\ ret' = apply_rotation(args.image, args.angle)
    /\ cpc' = "returned"
    /\ UNCHANGED <<heap, callee, args, rng>>
    /\ UNCHANGED nonStageVars

\* apply_noise(image, opacity) (lines 97-115).
CallNoise ==
    /\ cpc = "call"
    /\ callee = "apply_noise"
    /\ locals' = [small_w |-> Max(1, args.image.w \div 4),
                  small_h |-> Max(1, args.image.h \div 4)]
    /\ ret' = [apply_noise(args.image, args.opacity, rng)
                 EXCEPT !.data = NoiseData(args.image, args.opacity, rng)]
    /\ rng' = RngAdvance(rng, NoiseDraws(args.image))
    /\ cpc' = "returned"
    /\ UNCHANGED <<heap, callee, args>>
    /\ UNCHANGED nonStageVars

\* apply_brightness_contrast(image, brightness, contrast) (lines 118-122).
CallBrightnessContrast ==
    /\ cpc = "call"
    /\ callee = "apply_brightness_contrast"
    /\ locals' = <<>>
    /\ ret' = [apply_brightness_contrast(args.image, args.brightness, args.contrast)
                 EXCEPT !.data = BrightnessContrastData(args.image, args.brightness,
                                                        args.contrast)]
    /\ cpc' = "returned"
    /\ UNCHANGED <<heap, callee, args, rng>>
    /\ UNCHANGED nonStageVars

\* apply_vignette_fast(image, strength, radius_factor) (lines 201-228).
CallVignette ==
    /\ cpc = "call"
    /\ callee = "apply_vignette_fast"
    /\ locals' = VignetteLocals(args.image, args.strength, args.radius_factor)
    /\ ret' = [apply_vignette_fast(args.image, args.strength, args.radius_factor)
                 EXCEPT !.data = VignetteData(args.image, args.strength,
                                              args.radius_factor)]
    /\ cpc' = "returned"
    /\ UNCHANGED <<heap, callee, args, rng>>
    /\ UNCHANGED nonStageVars

\* apply_regional_blur(image, probability, radius, region_fraction)
\* (lines 231-245): the early return of line 234 assigns no local.
CallRegionalBlur ==
    /\ cpc = "call"
    /\ callee = "apply_regional_blur"
    /\ IF BlurSkipped(RngOut(rng), args.probability)
       THEN /\ locals' = <<>>
            /\ ret' = args.image
            /\ UNCHANGED heap
       ELSE /\ locals' = BlurLocals(args.image, args.region_fraction, rng)
            /\ ret' = [apply_regional_blur(args.image, args.probability,
                                           args.radius, args.region_fraction, rng)
                         EXCEPT !.data = RegionalBlurData(args.image,
                                                          args.region_fraction, rng)]
            /\ heap' = IF PasteTarget = "argument"
                       THEN [heap EXCEPT !.argument =
                               RegionalBlurData(args.image, args.region_fraction, rng)]
                       ELSE heap
    /\ rng' = RngAdvance(rng, BlurDraws(RngOut(rng), args.probability))
    /\ cpc' = "returned"
    /\ UNCHANGED <<callee, args>>
    /\ UNCHANGED nonStageVars

\* apply_perspective_warp(image, magnitude) (lines 179-198).
CallPerspectiveWarp ==
    /\ cpc = "call"
    /\ callee = "apply_perspective_warp"
    /\ locals' = [w |-> args.image.w, h |-> args.image.h,
                  src |-> Corners(args.image.w * Scale, args.image.h * Scale),
                  max_dx |-> args.image.w * args.magnitude,
                  max_dy |-> args.image.h * args.magnitude,
                  dst |-> WarpDst(args.image.w, args.image.h, args.magnitude,
                                  Outs(rng, WarpDraws))]
    /\ ret' = apply_perspective_warp(args.image, args.magnitude, rng)
    /\ rng' = RngAdvance(rng, WarpDraws)
    /\ cpc' = "returned"
    /\ UNCHANGED <<heap, callee, args>>
    /\ UNCHANGED nonStageVars

NextStages ==
    \/ CallPerspectiveWarp
    \/ CallRotation
    \/ CallNoise
    \/ CallBrightnessContrast
    \/ CallVignette
    \/ CallRegionalBlur

SpecStages == InitStages /\ [][NextStages]_vars

\* C13 as stated: for every image of width w >= 1 and height h >= 1 and
\* every angle of the preset rotation ranges, apply_rotation returns an
\* image of exactly w x h, the window with left = (rw - w) // 2 and
\* top = (rh - h) // 2 of the rotated canvas, and that window lies inside
\* the rw x rh canvas.
Returned(name) == cpc = "returned" /\ callee = name

WindowInsideCanvas ==
    /\ 0 <= locals.left
    /\ locals.left + locals.w <= locals.rw
    /\ 0 <= locals.top
    /\ locals.top + locals.h <= locals.rh

CenteredWindow ==
    /\ ret.w = args.image.w
    /\ ret.h = args.image.h
    /\ locals.left = (locals.rw - locals.w) \div 2
    /\ locals.top = (locals.rh - locals.h) \div 2
    /\ ret.px[Len(ret.px)] =
          <<"crop", locals.left, locals.top,
            locals.left + locals.w, locals.top + locals.h>>

C13_RotationWindowInsideCanvas ==
    Returned("apply_rotation") => (CenteredWindow /\ WindowInsideCanvas)

\* C13, amended: the ret is always the w x h window at
\* left = (rw - w) // 2, top = (rh - h) // 2; that window lies inside the
\* rotated canvas when neither side of the image is more than 2000 pixels
\* plus 45 times the other side (w <= 45 * h + 2000 and h <= 45 * w + 2000).
Proportionate(w, h) == w <= 45 * h + 2000 /\ h <= 45 * w + 2000

C13_RotationWindow ==
    Returned("apply_rotation") =>
        /\ CenteredWindow
        /\ Proportionate(args.image.w, args.image.h) => WindowInsideCanvas

\* A rotation by a negative angle whose canvas is larger than the image
\* in both directions, the window strictly inside it.
C13_Witness ==
    /\ Returned("apply_rotation")
    /\ args.angle < 0
    /\ args.image.w > 1
    /\ locals.rw > locals.w
    /\ locals.rh > locals.h
    /\ locals.left > 0
    /\ locals.top > 0
    /\ WindowInsideCanvas

\* C14: each photometric filter at its neutral parameter returns an image
\* pixel-identical to its input: apply_vignette_fast with strength 0 (its
\* mask is then 255 everywhere), apply_noise with opacity 0, and
\* apply_brightness_contrast with brightness 1.0 and contrast 1.0.
SamePixels(im1, im2) ==
    /\ im1.w = im2.w
    /\ im1.h = im2.h
    /\ im1.mode = im2.mode
    /\ im1.data = im2.data

C14_NeutralParametersAreIdentity ==
    /\ (Returned("apply_vignette_fast") /\ args.strength = 0) =>
          /\ \A xy \in DOMAIN locals.pixels : locals.pixels[xy] = 255
          /\ SamePixels(ret, args.image)
    /\ (Returned("apply_noise") /\ args.opacity = 0) =>
          SamePixels(ret, args.image)
    /\ (Returned("apply_brightness_contrast")
          /\ args.brightness = Scale /\ args.contrast = Scale) =>
          SamePixels(ret, args.image)

\* apply_noise has returned from a call with opacity 0 on an image of more
\* than one pixel whose noise grid has more than one cell.
C14_Witness ==
    /\ Returned("apply_noise")
    /\ args.opacity = 0
    /\ locals.small_w > 1
    /\ locals.small_h > 1
    /\ SamePixels(ret, args.image)

\* C16: when apply_regional_blur is triggered on an image of height h >= 1
\* the band [top, bottom) has 0 <= top < bottom <= h and
\* bottom - top = min(h, max(1, int(h * region_fraction))), and every pixel
\* of a row outside the band equals the input's; when it is not triggered
\* the image is returned unchanged.
BlurTriggered == Returned("apply_regional_blur") /\ locals # <<>>

C16_BlurBandFrame ==
    /\ BlurTriggered =>
          /\ 0 <= locals.top
          /\ locals.top < locals.bottom
          /\ locals.bottom <= args.image.h
          /\ locals.bottom - locals.top =
                Min(args.image.h,
                    Max(1, (args.image.h * args.region_fraction) \div Scale))
          /\ ret.w = args.image.w
          /\ ret.h = args.image.h
          /\ \A xy \in DOMAIN args.image.data :
                (xy[2] < locals.top \/ xy[2] >= locals.bottom)
                    => ret.data[xy] = args.image.data[xy]
    /\ (Returned("apply_regional_blur") /\ locals = <<>>) => ret = args.image

\* A triggered blur whose band is two rows high, away from the top and the
\* bottom of the image, and changed a pixel inside the band.
C16_Witness ==
    /\ BlurTriggered
    /\ locals.top > 0
    /\ locals.bottom < args.image.h
    /\ locals.bottom - locals.top = 2
    /\ \E xy \in DOMAIN ret.data : ret.data[xy] # args.image.data[xy]

\* C17 as stated: for strength in [0, 1] and radius_factor in [0.7, 0.9]
\* every value of the low-resolution mask is an integer in 0..255; it is
\* 255 wherever the distance is at most radius_factor, in particular at the
\* centre cell; it never increases as the distance grows; and at the corner
\* cell (0, 0) it is int(255 * (1 - strength)), strictly below the centre
\* value whenever strength > 0.
MaskInRange ==
    \A xy \in DOMAIN locals.pixels : locals.pixels[xy] \in 0..255

MaskFullInsideRadius ==
    \A xy \in DOMAIN locals.pixels :
        locals.dist[xy] <= args.radius_factor => locals.pixels[xy] = 255

MaskMonotone ==
    \A xy1, xy2 \in DOMAIN locals.pixels :
        locals.dist[xy1] <= locals.dist[xy2]
            => locals.pixels[xy1] >= locals.pixels[xy2]

MaskCorner ==
    locals.pixels[<<0, 0>>] = (255 * (Scale - args.strength)) \div Scale

CentreCell == <<locals.sw \div 2, locals.sh \div 2>>

MaskCentre ==
    /\ locals.pixels[CentreCell] = 255
    /\ args.strength > 0 => locals.pixels[<<0, 0>>] < locals.pixels[CentreCell]

C17_MaskCentreAlwaysFull ==
    Returned("apply_vignette_fast") =>
        /\ MaskInRange
        /\ MaskFullInsideRadius
        /\ MaskMonotone
        /\ MaskCorner
        /\ MaskCentre

\* C17, amended: the statements about the centre cell hold when the mask
\* is at least 2 x 2 (the image at least 16 x 16); a mask one cell wide or
\* high has its centre cell at distance 1 or more, beyond radius_factor.
C17_VignetteMask ==
    Returned("apply_vignette_fast") =>
        /\ MaskInRange
        /\ MaskFullInsideRadius
        /\ MaskMonotone
        /\ MaskCorner
        /\ (locals.sw >= 2 /\ locals.sh >= 2) => MaskCentre
        /\ args.strength > 0 => locals.pixels[<<0, 0>>] < 255

\* A 3 x 2 mask with strength > 0: the corner is darker than the centre
\* and some cell lies strictly between the two.
C17_Witness ==
    /\ Returned("apply_vignette_fast")
    /\ locals.sw = 3
    /\ locals.sh = 2
    /\ args.strength > 0
    /\ locals.pixels[<<0, 0>>] < locals.pixels[CentreCell]
    /\ \E xy \in DOMAIN locals.pixels :
          /\ locals.pixels[<<0, 0>>] < locals.pixels[xy]
          /\ locals.pixels[xy] < 255

\* The generator state before g: the step of the generator is a bijection
\* of 0..RngMod-1 (RngMul is odd, RngMod a power of two).
RngBefore(g) == CHOOSE b \in 0..(RngMod - 1) : RngNext(b) = g

\* The call of apply_regional_blur returned a blurred copy.
BlurApplied == Returned("apply_regional_blur") /\ ret # args.image

\* The value of random.random() at line 233 of the call that returned: one
\* draw was made when the call returned early, two when it blurred.
CoinOfBlur ==
    Unit(RngOut(IF BlurApplied THEN RngBefore(RngBefore(rng))
                ELSE RngBefore(rng)))

\* C21: regional blur is applied if and only if the uniform draw u in
\* [0, 1) is strictly below the probability (the rule of the wrinkle coin
\* flip); in particular with probability 0 apply_regional_blur returns the
\* image unchanged for every draw.
C21_BlurIffDrawBelowProbability ==
    Returned("apply_regional_blur") =>
        /\ BlurApplied <=> CoinOfBlur < args.probability
        /\ args.probability = 0 => ret = args.image

\* C25: in apply_perspective_warp, for every magnitude in the preset ranges
\* and every sequence of draws, src and dst are both ordered top-left,
\* top-right, bottom-right, bottom-left; each dst corner lies inside
\* [0, w] x [0, h] and differs from its src corner by at most magnitude * w
\* horizontally and magnitude * h vertically, toward the interior (top
\* corners down, bottom corners up, left corners right, right corners left).
\* Coordinates are in 1/Scale pixels.
WarpW == locals.w * Scale
WarpH == locals.h * Scale

\* Corner i of dst is displaced from corner i of src by (dx, dy) with
\* 0 <= dx <= max_dx and 0 <= dy <= max_dy, in the directions sx, sy.
Inward(i, sx, sy) ==
    LET dx == sx * (locals.dst[i][1] - locals.src[i][1])
        dy == sy * (locals.dst[i][2] - locals.src[i][2])
    IN  /\ 0 <= dx /\ dx <= locals.max_dx
        /\ 0 <= dy /\ dy <= locals.max_dy

C25_WarpCornersInward ==
    Returned("apply_perspective_warp") =>
        /\ locals.src = << <<0, 0>>, <<WarpW, 0>>, <<WarpW, WarpH>>, <<0, WarpH>> >>
        /\ locals.max_dx = args.magnitude * locals.w
        /\ locals.max_dy = args.magnitude * locals.h
        /\ Inward(1, 1, 1)
        /\ Inward(2, -1, 1)
        /\ Inward(3, -1, -1)
        /\ Inward(4, 1, -1)
        /\ \A i \in 1..4 :
              /\ 0 <= locals.dst[i][1] /\ locals.dst[i][1] <= WarpW
              /\ 0 <= locals.dst[i][2] /\ locals.dst[i][2] <= WarpH
        /\ ret.px[Len(ret.px)] = <<"perspective", locals.src, locals.dst>>

\* A warp at the largest magnitude of the presets moved every corner in
\* both directions, the four by different amounts.
C25_Witness ==
    /\ Returned("apply_perspective_warp")
    /\ args.magnitude = 150
    /\ \A i \in 1..4 :
          /\ locals.dst[i][1] # locals.src[i][1]
          /\ locals.dst[i][2] # locals.src[i][2]
    /\ locals.dst[1][1] # WarpW - locals.dst[2][1]
    /\ locals.dst[3][2] # locals.dst[4][2]

(***************************************************************************)
(* apply_wrinkle called on its own (specification SpecWrinkle).            *)
(***************************************************************************)

\* Images long enough for a whole half wavelength (at least 40 pixels) to
\* lie along the crease, and page-sized ones.
WrinkleSizes == {<<1, 1>>, <<MaxW, MaxH>>, <<6 * MaxW, 3>>}

WrinkleArgs ==
    {[image |-> TestImage(size, 1), num_wrinkles |-> nw, amplitude |-> am] :
        size \in WrinkleSizes, nw \in -1..2,
        am \in {0, Scale \div 2 - 1, Scale \div 2, 4 * Scale}}

InitWrinkle ==
    /\ SolveIdle
    /\ PipeOff
    /\ rng \in 0..(RngMod - 1)
    /\ callee = "apply_wrinkle"
    /\ args \in WrinkleArgs
    /\ heap = [argument |-> ContentOf(args.image)]
    /\ locals = <<>>
    /\ ret = <<>>
    /\ cpc = "call"

\* Lines 250-251: the early return.
WrinkleReturnEarly ==
    /\ cpc = "call"
    /\ callee = "apply_wrinkle"
    /\ WrinkleNoOp(args.num_wrinkles, args.amplitude)
    /\ ret' = args.image
    /\ cpc' = "returned"
    /\ UNCHANGED <<heap, callee, args, locals, rng>>
    /\ UNCHANGED nonStageVars

\* Lines 253-256: src_pixels is the input's buffer, result a copy of it;
\* target names the object dst_pixels writes to.
WrinkleBegin ==
    /\ cpc = "call"
    /\ callee = "apply_wrinkle"
    /\ ~WrinkleNoOp(args.num_wrinkles, args.amplitude)
    /\ locals' = [w |-> args.image.w, h |-> args.image.h,
                  src_pixels |-> "image", result |-> args.image.data,
                  passes |-> 0, crease |-> <<>>, i |-> 0, done |-> {},
                  last |-> <<>>, start |-> args.image.data,
                  target |-> WrinkleTarget]
    /\ cpc' = "wrinkle"
    /\ UNCHANGED <<heap, callee, args, ret, rng>>
    /\ UNCHANGED nonStageVars

\* Lines 260-276: the crease of the next wrinkle is drawn.  start records
\* the content of result when the pass begins, done the pixels the pass has
\* written.
WrinkleDraw ==
    /\ cpc = "wrinkle"
    /\ locals.passes < args.num_wrinkles
    /\ locals' = [locals EXCEPT !.crease = CreaseOf(locals.w, locals.h, rng),
                                !.i = 0, !.done = {}, !.last = <<>>,
                                !.start = locals.result]
    /\ rng' = RngAdvance(rng, PassDraws)
    /\ cpc' = "pixel"
    /\ UNCHANGED <<heap, callee, args, ret>>
    /\ UNCHANGED nonStageVars

\* The buffer src_pixels refers to.
SourceBuffer == IF locals.src_pixels = "image" THEN heap.argument ELSE locals.result

\* One iteration of the loops over y and x (lines 278-340), pixel number i
\* in the order of the loops.  last records what the iteration computed,
\* and which of the pixels it read had been written earlier in the pass
\* into the buffer it read.
WrinklePixelStep ==
    /\ cpc = "pixel"
    /\ locals.i < locals.w * locals.h
    /\ \E x \in {locals.i % locals.w}, y \in {locals.i \div locals.w} :
       \E px \in {WrinklePixel(locals.crease, args.amplitude, locals.w,
                               locals.h, x, y, SourceBuffer)} :
           IF px.written
           THEN /\ locals' = [locals EXCEPT
                     !.result = [@ EXCEPT ![<<x, y>>] = px.value],
                     !.done = @ \cup {<<x, y>>},
                     !.i = @ + 1,
                     !.last = [xy |-> <<x, y>>, written |-> TRUE,
                               stale |-> IF locals.src_pixels = "result"
                                         THEN px.reads \cap locals.done ELSE {},
                               x0 |-> px.x0, y0 |-> px.y0,
                               x1 |-> px.x1, y1 |-> px.y1,
                               fx |-> px.fx, fy |-> px.fy,
                               dist |-> px.dist, near |-> px.near,
                               displacement |-> px.displacement,
                               sample |-> px.sample,
                               shadow_envelope |-> px.shadow_envelope,
                               value |-> px.value]]
                /\ heap' = IF locals.target = "argument"
                           THEN [heap EXCEPT !.argument[<<x, y>>] = px.value]
                           ELSE heap
                /\ UNCHANGED <<ret, cpc>>
           ELSE IF OutsideFalloff(Abs(CreaseDistance(locals.crease, locals.w,
                                                     locals.h, x, y)),
                                  locals.crease.falloff)
           THEN /\ locals' = [locals EXCEPT
                     !.i = @ + 1,
                     !.last = [xy |-> <<x, y>>, written |-> FALSE]]
                /\ UNCHANGED <<heap, ret, cpc>>
           ELSE \* a read outside the image: the pixel access raises
                /\ locals' = [locals EXCEPT
                     !.last = [xy |-> <<x, y>>, written |-> FALSE,
                               x0 |-> px.x0, y0 |-> px.y0,
                               x1 |-> px.x1, y1 |-> px.y1,
                               fx |-> px.fx, fy |-> px.fy]]
                /\ ret' = [exception |-> "IndexError"]
                /\ cpc' = "raised"
                /\ UNCHANGED heap
    /\ UNCHANGED <<callee, args, rng>>
    /\ UNCHANGED nonStageVars

\* Line 343: src_pixels = result.load().
WrinkleNext ==
    /\ cpc = "pixel"
    /\ locals.i = locals.w * locals.h
    /\ locals' = [locals EXCEPT !.src_pixels = "result", !.passes = @ + 1]
    /\ cpc' = "wrinkle"
    /\ UNCHANGED <<heap, callee, args, ret, rng>>
    /\ UNCHANGED nonStageVars

\* Line 345.
WrinkleReturn ==
    /\ cpc = "wrinkle"
    /\ locals.passes >= args.num_wrinkles
    /\ ret' = [args.image EXCEPT !.data = locals.result]
    /\ cpc' = "returned"
    /\ UNCHANGED <<heap, callee, args, locals, rng>>
    /\ UNCHANGED nonStageVars

NextWrinkle ==
    \/ WrinkleReturnEarly
    \/ WrinkleBegin
    \/ WrinkleDraw
    \/ WrinklePixelStep
    \/ WrinkleNext
    \/ WrinkleReturn

SpecWrinkle == InitWrinkle /\ [][NextWrinkle]_vars

\* C15: apply_wrinkle called with amplitude < 0.5, or with
\* num_wrinkles <= 0, returns the image it was given, runs no wrinkle pass
\* and draws nothing from the generator.
C15_WrinkleGuardIsNoOp ==
    [][(/\ cpc = "call"
        /\ callee = "apply_wrinkle"
        /\ (2 * args.amplitude < Scale \/ args.num_wrinkles <= 0))
         => (/\ cpc' = "returned"
             /\ ret' = args.image
             /\ locals' = <<>>
             /\ rng' = rng)]_vars

\* A call asking for wrinkles with an amplitude just below 0.5 has returned
\* its argument.
C15_Witness ==
    /\ cpc = "returned"
    /\ callee = "apply_wrinkle"
    /\ args.num_wrinkles > 0
    /\ args.amplitude = Scale \div 2 - 1
    /\ ret = args.image
    /\ locals = <<>>

\* C19: in every wrinkle pass the source buffer is a read-only snapshot of
\* the previous pass's output (of the input image in the first pass): no
\* pixel read by the bilinear sampling of a pass was written earlier in the
\* same pass.
PixelDone == cpc = "pixel" /\ locals.last # <<>> /\ locals.last.written

C19_SourceIsSnapshot == PixelDone => locals.last.stale = {}

\* C20 as stated: in a wrinkle pass, for a pixel nearer to the crease than
\* 40% of the falloff, every channel is the bilinear sample darkened by
\* shadow_envelope * 0.06 * 255 where dist > 0, and is the bilinear sample
\* with no brightness change where dist <= 0 (truncated to an integer in
\* 0..255).
Shaded(amount) ==
    locals.last.value =
        [c \in 1..3 |-> Clamp(Floor(locals.last.sample[c] + amount, Micro), 0, 255)]

ShadowAmount == locals.last.shadow_envelope * ShadowDepth

C20_OtherSideUnmodified ==
    (PixelDone /\ locals.last.near) =>
        IF locals.last.dist > 0 THEN Shaded(-ShadowAmount) ELSE Shaded(0)

\* C20, amended: where dist <= 0 every channel is lightened by the same
\* shadow_envelope * 0.06 * 255.
C20_CreaseShading ==
    (PixelDone /\ locals.last.near) =>
        IF locals.last.dist > 0 THEN Shaded(-ShadowAmount) ELSE Shaded(ShadowAmount)

\* A pixel near the crease on the side dist <= 0 was written lighter than
\* its bilinear sample.
C20_Witness ==
    /\ PixelDone
    /\ locals.last.near
    /\ locals.last.dist < 0
    /\ locals.last.shadow_envelope > Scale \div 2
    /\ \E c \in 1..3 :
          /\ locals.last.value[c] > Floor(locals.last.sample[c], Micro) + 5
          /\ locals.last.value[c] < 255

\* The pixel xy lies strictly inside the falloff band of the crease of the
\* current pass.
InsideFalloff(xy) ==
    Abs(CreaseDistance(locals.crease, locals.w, locals.h, xy[1], xy[2]))
        < locals.crease.falloff * Scale

InPass == callee = "apply_wrinkle" /\ cpc = "pixel"

\* C22: in each wrinkle pass, every pixel whose distance to the crease
\* line is at least the falloff half-width keeps exactly the value it had
\* at the start of that pass; only pixels strictly inside the falloff band
\* are written.
C22_OutsideFalloffUntouched ==
    InPass =>
        /\ \A xy \in locals.done : InsideFalloff(xy)
        /\ \A xy \in DOMAIN locals.result :
              ~InsideFalloff(xy) => locals.result[xy] = locals.start[xy]
        /\ \A xy \in DOMAIN locals.result :
              xy \notin locals.done => locals.result[xy] = locals.start[xy]

\* The second pass over an image is over: it changed a pixel inside the
\* band, left pixels outside it, one of them exactly at the falloff
\* distance, and the first pass had changed a pixel that this one left.
C22_Witness ==
    /\ InPass
    /\ locals.passes = 1
    /\ locals.i = locals.w * locals.h
    /\ \E xy \in locals.done : locals.result[xy] # locals.start[xy]
    /\ \E xy \in DOMAIN locals.result :
          /\ Abs(CreaseDistance(locals.crease, locals.w, locals.h, xy[1], xy[2]))
                = locals.crease.falloff * Scale
          /\ xy \notin locals.done
    /\ \E xy \in DOMAIN locals.result :
          /\ ~InsideFalloff(xy)
          /\ locals.result[xy] # args.image.data[xy]

\* C23: for every image with w >= 1 and h >= 1 and every displacement, the
\* four pixels read by the bilinear sampling are inside the image,
\* 0 <= x0 <= x1 <= w-1 and 0 <= y0 <= y1 <= h-1, the weights fx, fy are in
\* [0, 1) (in thousandths), and the sampling never raises.
SampledPixel ==
    /\ callee = "apply_wrinkle"
    /\ cpc \in {"pixel", "raised"}
    /\ locals.last # <<>>
    /\ (locals.last.written \/ cpc = "raised")

C23_SamplingInsideImage ==
    /\ (callee = "apply_wrinkle" /\ args.image.w >= 1 /\ args.image.h >= 1)
          => cpc # "raised"
    /\ SampledPixel =>
          /\ 0 <= locals.last.x0
          /\ locals.last.x0 <= locals.last.x1
          /\ locals.last.x1 <= locals.w - 1
          /\ 0 <= locals.last.y0
          /\ locals.last.y0 <= locals.last.y1
          /\ locals.last.y1 <= locals.h - 1
          /\ 0 <= locals.last.fx /\ locals.last.fx < 1000
          /\ 0 <= locals.last.fy /\ locals.last.fy < 1000

\* A pixel in the first row of a horizontal crease was displaced above the
\* image and sampled at row 0; one in the last column of a vertical crease
\* was displaced to the right of the image and sampled between the last two
\* columns.
ClampedLow ==
    /\ SampledPixel
    /\ locals.crease.horizontal
    /\ locals.last.xy[2] = 0
    /\ locals.last.displacement < 0
    /\ locals.last.y0 = 0 /\ locals.last.fy = 0

ClampedHigh ==
    /\ SampledPixel
    /\ ~locals.crease.horizontal
    /\ locals.last.xy[1] = locals.w - 1
    /\ locals.last.displacement > 0
    /\ locals.last.x0 = locals.w - 2 /\ locals.last.x1 = locals.w - 1
    /\ locals.last.fx = 999

C23_Witness == ClampedLow \/ ClampedHigh

(***************************************************************************)
(* Every stage function called on its own (specification SpecCalls): the   *)
(* calls of SpecStages and those of SpecWrinkle.                           *)
(***************************************************************************)
InitCalls == InitStages \/ InitWrinkle

NextCalls == NextStages \/ NextWrinkle

SpecCalls == InitCalls /\ [][NextCalls]_vars

BlurWroteCopy ==
    /\ BlurApplied
    /\ \E xy \in DOMAIN ret.data : ret.data[xy] # heap.argument[xy]

WrinkleWroteCopy ==
    /\ Returned("apply_wrinkle")
    /\ locals # <<>>
    /\ \E xy \in DOMAIN ret.data : ret.data[xy] # heap.argument[xy]

MaxCount == 6

\* src/config.py:40-86, the keys of the dictionary.
LANGUAGE_CODES ==
    {"en", "th", "es", "fr", "de", "it", "pt", "ru", "ja", "ko", "zh", "ar",
     "hi", "nl", "sv", "no", "da", "fi", "pl", "tr", "he", "cs", "hu", "ro",
     "bg", "hr", "sk", "sl", "et", "lv", "lt", "uk", "vi", "id", "ms", "tl",
     "bn", "ta", "te", "ml", "kn", "gu", "pa", "ur", "fa"}

\* Line 86, line 91 and line 92.
MaxBatchRetries == 5
BatchRetries == 3
BatchLimit == 5

GeminiArgs ==
    [count : 0..MaxCount, language : {"en", "th", "xx"}]

\* One entity record: where it comes from and the metadata lines 108-109,
\* 121-122 and 398-399 add.
Entity(origin, language) ==
    [origin |-> origin, _document_type |-> "test", _language |-> language]

\* k entities parsed from the model's answer, with their metadata.
ModelEntities(k, language) == [j \in 1..k |-> Entity("model", language)]

\* Lines 391-400: _fill_remaining_entities appends fallback entities until
\* the list has target_count of them.
FillRemainingEntities(entity_list, language, target_count) ==
    LET remaining == target_count - Len(entity_list)
    IN  IF remaining <= 0 THEN entity_list
        ELSE entity_list
                \o [j \in 1..remaining |-> Entity("fallback", language)]

\* entity_list[:count] for count >= 0.
Prefix(entity_list, count) ==
    SubSeq(entity_list, 1, IF count < Len(entity_list)
                           THEN count ELSE Len(entity_list))

InitGemini ==
    /\ SolveIdle
    /\ PipeIdle
    /\ callee = "generate_bulk_entity_data"
    /\ args \in GeminiArgs
    /\ heap = <<>>
    /\ locals = <<>>
    /\ ret = <<>>
    /\ cpc = "call"

InGemini(at) == callee = "generate_bulk_entity_data" /\ cpc = at

\* Lines 79-80: an unsupported language code raises ValueError before any
\* call of the model.
GeminiRejectLanguage ==
    /\ InGemini("call")
    /\ args.language \notin LANGUAGE_CODES
    /\ ret' = [exception |-> "ValueError",
               message |-> "Unsupported language code"]
    /\ cpc' = "raised"
    /\ UNCHANGED <<heap, callee, args, locals, rng>>
    /\ UNCHANGED nonStageVars

\* Lines 82-88.  History: calls and raised count the calls of
\* generate_content and those of them that raised, failed the attempts of
\* the current batch that gave no entity, abandoned the batches given up.
GeminiBegin ==
    /\ InGemini("call")
    /\ args.language \in LANGUAGE_CODES
    /\ locals' = [max_batch_retries |-> MaxBatchRetries,
                  entity_list |-> <<>>,
                  remaining_count |-> args.count,
                  batch_retries |-> 0,
                  batch_size |-> 0,
                  batch_success |-> FALSE,
                  calls |-> 0,
                  raised |-> 0,
                  caught |-> {},
                  failed |-> 0,
                  abandoned |-> 0]
    /\ cpc' = "batches"
    /\ UNCHANGED <<heap, callee, args, ret, rng>>
    /\ UNCHANGED nonStageVars

\* Line 90.
MoreBatches == locals.remaining_count > 0 /\ locals.max_batch_retries > 0

\* Lines 90-98: the head of one batch.
GeminiBatch ==
    /\ InGemini("batches")
    /\ MoreBatches
    /\ locals' = [locals EXCEPT
            !.batch_retries = BatchRetries,
            !.batch_size = IF locals.remaining_count < BatchLimit
                           THEN locals.remaining_count ELSE BatchLimit,
            !.batch_success = FALSE,
            !.failed = 0]
    /\ cpc' = "attempts"
    /\ UNCHANGED <<heap, callee, args, ret, rng>>
    /\ UNCHANGED nonStageVars

\* Line 100.
MoreAttempts == locals.batch_retries > 0 /\ ~locals.batch_success

\* Lines 102 and 135-137: generate_content (or reading response.text)
\* raises; the handler of line 135 catches every Exception, reports it and
\* counts the attempt.
GenerateContentRaises ==
    /\ InGemini("attempts")
    /\ MoreAttempts
    /\ locals' = [locals EXCEPT
            !.batch_retries = @ - 1,
            !.calls = @ + 1,
            !.raised = @ + 1,
            !.failed = @ + 1,
            !.caught = @ \cup {"API Error"}]
    /\ UNCHANGED <<heap, callee, args, ret, cpc, rng>>
    /\ UNCHANGED nonStageVars

\* Lines 103 and 132-134: the answer is no JSON, json.loads raises
\* JSONDecodeError inside _parse_entity_response (line 318).
ParseRaises ==
    /\ InGemini("attempts")
    /\ MoreAttempts
    /\ locals' = [locals EXCEPT
            !.batch_retries = @ - 1,
            !.calls = @ + 1,
            !.failed = @ + 1,
            !.caught = @ \cup {"JSONDecodeError"}]
    /\ UNCHANGED <<heap, callee, args, ret, cpc, rng>>
    /\ UNCHANGED nonStageVars

\* Lines 105-118: a full batch is taken whole, of any other answer the
\* first min(len(batch_entities), batch_size) entities.
UsefulCount_All(got, batch_size) == got
UsefulCount(got, batch_size) == IF got < batch_size THEN got ELSE batch_size

\* Lines 103-130: the answer parses to a list of got entities (the model
\* may answer fewer or more than batch_size).
ParseReturns ==
    /\ InGemini("attempts")
    /\ MoreAttempts
    /\ \E got \in 0..(locals.batch_size + 1) :
          LET useful == UsefulCount(got, locals.batch_size)
          IN  locals' =
                IF got = 0
                THEN [locals EXCEPT !.batch_retries = @ - 1,
                                    !.calls = @ + 1,
                                    !.failed = @ + 1]
                ELSE [locals EXCEPT
                        !.entity_list =
                            @ \o ModelEntities(useful, args.language),
                        !.remaining_count = @ - useful,
                        !.batch_success = TRUE,
                        !.calls = @ + 1]
    /\ UNCHANGED <<heap, callee, args, ret, cpc, rng>>
    /\ UNCHANGED nonStageVars

\* Lines 139-141: a batch whose attempts all failed costs one of the
\* overall retries.
GeminiBatchEnd ==
    /\ InGemini("attempts")
    /\ ~MoreAttempts
    /\ locals' = [locals EXCEPT
            !.max_batch_retries =
                IF locals.batch_success THEN @ ELSE @ - 1,
            !.abandoned = IF locals.batch_success THEN @ ELSE @ + 1]
    /\ cpc' = "batches"
    /\ UNCHANGED <<heap, callee, args, ret, rng>>
    /\ UNCHANGED nonStageVars

\* Lines 143-149: the missing entities are filled in with fallback data
\* and the first count entities are returned.
GeminiReturn ==
    /\ InGemini("batches")
    /\ ~MoreBatches
    /\ LET filled == IF Len(locals.entity_list) < args.count
                     THEN FillRemainingEntities(locals.entity_list,
                                                args.language, args.count)
                     ELSE locals.entity_list
       IN  /\ locals' = [locals EXCEPT !.entity_list = filled]
           /\ ret' = Prefix(filled, args.count)
    /\ cpc' = "returned"
    /\ UNCHANGED <<heap, callee, args, rng>>
    /\ UNCHANGED nonStageVars

NextGemini ==
    \/ GeminiRejectLanguage
    \/ GeminiBegin
    \/ GeminiBatch
    \/ GenerateContentRaises
    \/ ParseRaises
    \/ ParseReturns
    \/ GeminiBatchEnd
    \/ GeminiReturn

SpecGemini == InitGemini /\ [][NextGemini]_vars

\* The call is over, the model was called at least once and every call of
\* generate_content raised.
EveryModelCallRaised ==
    /\ callee = "generate_bulk_entity_data"
    /\ cpc \in {"returned", "raised"}
    /\ args.language \in LANGUAGE_CODES
    /\ locals.calls > 0
    /\ locals.raised = locals.calls

\* C18: when every call to the underlying model raises an error,
\* generate_bulk_entity_data raises an exception carrying that API error to
\* its caller, instead of returning entity records.
C18_ApiErrorReachesCaller ==
    EveryModelCallRaised =>
        /\ cpc = "raised"
        /\ ret.message = "API Error"


\* A measure of the work left: it is a natural number and every step of
\* the function lowers it.
GeminiRank ==
    IF cpc = "call" THEN 10 * (MaxCount + MaxBatchRetries + 1)
    ELSE IF cpc \in {"returned", "raised"} THEN 0
    ELSE 10 * (locals.remaining_count + locals.max_batch_retries)
            + (IF cpc = "batches" THEN 5
               ELSE IF locals.batch_success THEN 6
               ELSE locals.batch_retries)

\* What holds of the locals once the language check has passed.
GeminiBounded ==
    /\ locals.remaining_count >= 0
    /\ locals.calls <= 3 * args.count + 15
    /\ locals.failed \in 0..3
    /\ locals.abandoned \in 0..5
    /\ locals.abandoned = 5 => cpc \in {"batches", "returned"}
    /\ cpc # "returned" =>
          Len(locals.entity_list) + locals.remaining_count = args.count
    /\ cpc = "returned" =>
          /\ locals.remaining_count = 0 \/ locals.abandoned = 5
          /\ Len(ret) = args.count
          /\ \A j \in 1..Len(ret) :
                ret[j].origin = IF j <= args.count - locals.remaining_count
                                THEN "model" ELSE "fallback"

MAX_RETRIES == 3
RETRY_DELAY == 5

\* Status codes a POST can be answered with: success, redirection not
\* followed, client errors and server errors.
StatusCodes == {200, 202, 304, 400, 401, 404, 429, 500, 502, 503}

TaskIds == {"task-a", "task-b"}

\* requests.post raises instead of returning a response.
TransportErrors == {"Timeout", "ConnectionError"}

SubmitArgs == [prompt : {"paper"}, seed : 0..MaxSeed]

\* Line 84: if response.status_code == 500 and attempt < MAX_RETRIES
ShouldRetry_AnyServerError(status_code, attempt) ==
    status_code >= 500 /\ attempt < MAX_RETRIES
ShouldRetry(status_code, attempt) ==
    status_code = 500 /\ attempt < MAX_RETRIES

\* Line 89: response.raise_for_status() raises HTTPError for the codes
\* 400..599.
IsErrorStatus(status_code) == 400 <= status_code /\ status_code < 600

InitSubmit ==
    /\ SolveIdle
    /\ PipeIdle
    /\ heap = <<>>
    /\ callee = "submit_generation"
    /\ args \in SubmitArgs
    /\ locals = <<>>
    /\ ret = <<>>
    /\ cpc = "call"

InSubmit(at) == callee = "submit_generation" /\ cpc = at

\* Lines 77-82: the payload, and the first value of attempt.  History:
\* responses is the status code of every answer received, slept every
\* delay waited, posts the number of POST requests sent.
SubmitBegin ==
    /\ InSubmit("call")
    /\ locals' = [payload |-> [prompt |-> args.prompt, seed |-> args.seed],
                  attempt |-> 1,
                  response |-> <<>>,
                  posts |-> 0,
                  responses |-> <<>>,
                  slept |-> <<>>]
    /\ cpc' = "post"
    /\ UNCHANGED <<heap, callee, args, ret, rng>>
    /\ UNCHANGED nonStageVars

\* Line 83: the POST is answered.
SubmitPost ==
    /\ InSubmit("post")
    /\ locals.attempt <= MAX_RETRIES
    /\ \E code \in StatusCodes, id \in TaskIds :
          locals' = [locals EXCEPT
                !.response = [status_code |-> code, task_id |-> id],
                !.posts = @ + 1,
                !.responses = Append(@, code)]
    /\ cpc' = "check"
    /\ UNCHANGED <<heap, callee, args, ret, rng>>
    /\ UNCHANGED nonStageVars

\* Line 83: requests.post raises; nothing in submit_generation catches it.
SubmitPostRaises ==
    /\ InSubmit("post")
    /\ locals.attempt <= MAX_RETRIES
    /\ \E e \in TransportErrors :
          ret' = [exception |-> e, status_code |-> 0]
    /\ locals' = [locals EXCEPT !.posts = @ + 1]
    /\ cpc' = "raised"
    /\ UNCHANGED <<heap, callee, args, rng>>
    /\ UNCHANGED nonStageVars

\* Lines 84-88: wait RETRY_DELAY * attempt seconds and go to the next
\* attempt.
SubmitRetry ==
    /\ InSubmit("check")
    /\ ShouldRetry(locals.response.status_code, locals.attempt)
    /\ locals' = [locals EXCEPT
            !.slept = Append(@, RETRY_DELAY * locals.attempt),
            !.attempt = @ + 1]
    /\ cpc' = "post"
    /\ UNCHANGED <<heap, callee, args, ret, rng>>
    /\ UNCHANGED nonStageVars

\* Line 89: raise_for_status raises.
SubmitRaiseForStatus ==
    /\ InSubmit("check")
    /\ ~ShouldRetry(locals.response.status_code, locals.attempt)
    /\ IsErrorStatus(locals.response.status_code)
    /\ ret' = [exception |-> "HTTPError",
               status_code |-> locals.response.status_code]
    /\ cpc' = "raised"
    /\ UNCHANGED <<heap, callee, args, locals, rng>>
    /\ UNCHANGED nonStageVars

\* Line 90: return response.json()['task_id'].
SubmitReturn ==
    /\ InSubmit("check")
    /\ ~ShouldRetry(locals.response.status_code, locals.attempt)
    /\ ~IsErrorStatus(locals.response.status_code)
    /\ ret' = locals.response.task_id
    /\ cpc' = "returned"
    /\ UNCHANGED <<heap, callee, args, locals, rng>>
    /\ UNCHANGED nonStageVars

NextSubmit ==
    \/ SubmitBegin
    \/ SubmitPost
    \/ SubmitPostRaises
    \/ SubmitRetry
    \/ SubmitRaiseForStatus
    \/ SubmitReturn

SpecSubmit == InitSubmit /\ [][NextSubmit]_vars


SubmitStarted == callee = "submit_generation" /\ cpc # "call"

\* The answers before the last one received.
EarlierAnswers == 1..(Len(locals.responses) - 1)

\* C30: submit_generation sends at most MAX_RETRIES = 3 POST requests.  It
\* retries only after a 500 answer and only on attempts 1 and 2, having
\* waited RETRY_DELAY * attempt seconds (5, then 10) before the next
\* request; any other error status raises HTTPError at once, a 500 on the
\* third attempt raises, and the first answer that is not an error returns
\* its task id with no further request.
C30_SubmitRetriesOnlyOn500 ==
    SubmitStarted =>
        /\ locals.posts <= MAX_RETRIES
        /\ locals.attempt <= MAX_RETRIES
        /\ Len(locals.responses) <= locals.posts
        /\ \A i \in EarlierAnswers :
              locals.responses[i] = 500 /\ i < MAX_RETRIES
        /\ locals.slept = [i \in 1..(locals.attempt - 1) |-> RETRY_DELAY * i]
        /\ locals.slept \in {<<>>, <<5>>, <<5, 10>>}
        /\ cpc = "post" =>
              /\ locals.posts = locals.attempt - 1
              /\ Len(locals.slept) = locals.posts
        /\ cpc \in {"check", "returned"} =>
              locals.posts = locals.attempt
        /\ cpc = "check" => Len(locals.responses) = locals.posts
        /\ (cpc = "raised" /\ ret.exception = "HTTPError") =>
              /\ locals.posts = locals.attempt
              /\ ret.status_code = locals.responses[locals.posts]
              /\ IsErrorStatus(ret.status_code)
              /\ ret.status_code = 500 => locals.posts = MAX_RETRIES
        /\ cpc = "returned" =>
              /\ ~IsErrorStatus(locals.responses[locals.posts])
              /\ ret = locals.response.task_id
              /\ ret \in TaskIds

\* Two 500 answers were waited out (5 s, then 10 s) and the third request
\* was answered with a task id.
C30_Witness ==
    /\ InSubmit("returned")
    /\ locals.responses = <<500, 500, 200>>
    /\ locals.slept = <<5, 10>>
    /\ locals.posts = MAX_RETRIES
    /\ ret \in TaskIds

\* A 500 on the third attempt raised; so did a 503 on the first.
C30_WitnessRaised ==
    /\ InSubmit("raised")
    /\ ret.exception = "HTTPError"
    /\ locals.responses \in {<<500, 500, 500>>, <<503>>}

=============================================================================
